---- MODULE Spec2Model ----
(***************************************************************************)
(* Model of the agent runtime.                                             *)
(*                                                                         *)
(* Spec, FairSpec: the tool-call scheduler (CoreToolScheduler,             *)
(* packages/core/src/core/coreToolScheduler.ts, as excerpted in            *)
(* agent_mode_analysis.md).  One scheduler instance, several schedule()    *)
(* invocations that may overlap at the await points of the code, the       *)
(* promises of the tools' execute calls, the cancellation token and the    *)
(* resolution of pending approvals.                                        *)
(*                                                                         *)
(* ToolCallSpec: one request to NmapTool (tools/web-analyzer.ts) taken     *)
(* through the scheduler, with the tool's validator, confirmation hook and *)
(* execute.                                                                *)
(*                                                                         *)
(* TurnSpec: one Turn (core/turn.ts as excerpted in agent_mode_analysis.md) *)
(* reading the chunks of one response stream, at the granularity of its    *)
(* yields.                                                                 *)
(*                                                                         *)
(* DriverSpec: GeminiClient.sendMessageStream, the loop that runs Turns    *)
(* under a turn budget and asks the continuation policy.                   *)
(*                                                                         *)
(* AgentSpec: MainAgent and ToolsAgent (agents/mainAgent.ts,                *)
(* agents/toolsAgent.ts) exchanging messages over the two buses that       *)
(* AgentOrchestrator wires together.                                       *)
(*                                                                         *)
(* OrchestratorSpec: one AgentOrchestrator (its public calls initialize,   *)
(* handleUserInput, shutdown, reset, clearHistory, getStatus) with the two *)
(* agents and buses of AgentSpec behind it; initialize() is taken at the   *)
(* granularity of its awaits, and so is the planner's handling of a        *)
(* ToolExecutionResponse.                                                  *)
(*                                                                         *)
(* FairAgentSpec: AgentSpec with every started processMessage call        *)
(* settling.                                                               *)
(*                                                                         *)
(* ExecSpec: one TwoAgentSystem.executeTools call over its requests.       *)
(*                                                                         *)
(* CliSpec: one AgentCliIntegration, its initialize, shutdown and          *)
(* processUserInput calls at the granularity of their awaits.              *)
(*                                                                         *)
(* ConfirmSpec: a session of requests to HTBScannerTool, NmapTool and      *)
(* WebAnalyzerTool taken one at a time through confirmation and execute.   *)
(*                                                                         *)
(* ConfigSpec: the loadTwoAgentConfig calls of one process                 *)
(* (agents/config.ts).                                                     *)
(*                                                                         *)
(* Every specification keeps the variables of the other components at      *)
(* their initial values.                                                   *)
(***************************************************************************)
EXTENDS Integers, Sequences, FiniteSets, TLC

\* ------------------------------------------------------------------ bounds
MaxCalls == 3        \* call ids handed out over the life of the scheduler
MaxBatch == 3        \* requests in one schedule() call
MaxSchedules == 2    \* schedule() invocations
MaxChunks == 2       \* chunks of one response stream
MaxFnCalls == 2      \* function calls carried by one response stream
MaxDepth == 102      \* nested sendMessageStream invocations followed
MaxMessages == 1     \* messages put on the buses from outside the orchestrator
MaxInits == 2        \* initialize() calls on one orchestrator
MaxShutdowns == 1    \* shutdown() calls
MaxInputs == 1       \* handleUserInput() calls
MaxOthers == 1       \* reset(), clearHistory() and getStatus() calls
MaxToolCalls == 2    \* requests in one executeTools call
MaxCliCalls == 4     \* calls made on one AgentCliIntegration
MaxRequests == 2     \* tool requests of one confirmation session
MaxLoads == 2        \* loadTwoAgentConfig calls in one process

\* --------------------------------------------------------------- constants
Registry == {"nmap_scan"}                    \* names toolRegistry.getTool knows
ToolNames == Registry \cup {"no_such_tool"}  \* names a request may carry
Terminal == {"success", "error", "cancelled"}
NonTerminal == {"validating", "awaiting_approval", "scheduled", "executing"}
ApprovalModes == {"YOLO", "DEFAULT"}
ConfirmResults == {"details", "false", "throws"}
Outcomes == {"ProceedOnce", "ProceedAlways", "Reject"}
Invocations == 1..MaxSchedules
CallIds == 1..MaxCalls

VARIABLES
  toolCalls,     \* CoreToolScheduler.toolCalls: sequence of [callId, name, status]
  approvalMode,  \* CoreToolScheduler.approvalMode
  preApproved,   \* tool names resolved with ProceedAlways
  pc,            \* position of each schedule() invocation
  reqs,          \* requestsToProcess of each schedule() invocation in progress
  idx,           \* index of the record whose confirmation hook is awaited
  aborted,       \* signal.aborted of the session's cancellation token
  pending,       \* call ids whose execute() promise is unsettled
  nextId,        \* next call id the caller hands out
  batchOf,       \* per call id, the invocation it was submitted with (0: none yet)
  offTrack,      \* status updates [from, to] made so far that are no edge of Lifecycle
  completed,     \* payload of the latest onAllToolCallsComplete call, until the next batch
  notifications, \* per invocation, the completion calls that carried its records
  cancelSet      \* the records the cancellation found Executing or AwaitingApproval,
                 \* no record having completed

\* one request to NmapTool on its way through the scheduler
VARIABLES
  tcParams,      \* the NmapToolParams of the request
  tcStatus,      \* ToolCall.status of its record ("none": not submitted yet)
  tcPromise,     \* what the call of execute() found on entry ("none": not called)
  tcResponse     \* the response its record carries, [kind, text] (kind "none": none yet)

schedulerVars == <<toolCalls, preApproved, pc, reqs, idx, pending, nextId, batchOf,
                   offTrack, completed, notifications, cancelSet>>

toolCallVars == <<tcParams, tcStatus, tcPromise, tcResponse>>

\* one Turn (Turn.run) over the response stream of the backend
VARIABLES
  turnPc,            \* where the generator Turn.run is suspended
  resp,              \* the chunk of the for-await loop being processed
  fnIdx,             \* index in resp.functionCalls of the call handled last
  chunkNo,           \* chunks the backend has delivered so far
  events,            \* the events Turn.run has yielded so far
  pendingToolCalls,  \* Turn.pendingToolCalls
  now,               \* Date.now() at its latest reading
  handled,           \* per handlePendingFunctionCall call: the fnCall, the clock, the draw
  requested          \* function calls carried by the chunks processed so far

turnVars == <<turnPc, resp, fnIdx, chunkNo, events, pendingToolCalls, now, handled,
              requested>>

\* the driver loop (GeminiClient.sendMessageStream) and its recursion
VARIABLES
  drvPc,             \* where the innermost sendMessageStream invocation stands
  turnsArg,          \* the turns argument of the outermost call
  budget,            \* boundedTurns of the innermost invocation
  depth,             \* sendMessageStream invocations entered so far
  turnsRun,          \* Turns run so far (turn.run called)
  backendCalled,     \* whether any call went to the backend
  policyAsked,       \* checkNextSpeaker calls so far
  lastAnswer,        \* next_speaker of the latest checkNextSpeaker answer
  lastPendingEmpty,  \* whether the Turn completed last left pendingToolCalls empty
  request            \* the request the latest Turn was run with

driverVars == <<drvPc, turnsArg, budget, depth, turnsRun, backendCalled, policyAsked,
                lastAnswer, lastPendingEmpty, request>>

VARIABLES
  mainAgentBus,      \* messageHistory of the bus the MainAgent sends on
  toolsAgentBus,     \* messageHistory of the bus the ToolsAgent sends on
  deliveries,        \* processMessage calls the bus listeners started and not yet settled
  handledLog,        \* the processMessage calls settled so far, each with what it returned
  clock,             \* the latest reading of Date.now()
  submitted,         \* messages sent on the buses from outside the orchestrator
  sendCount,         \* sendMessage calls so far, on both buses
  lastSend           \* the bus of the latest sendMessage calls and their pushes and emits in order

VARIABLES
  isInitialized,       \* AgentOrchestrator.isInitialized
  context,             \* per agent, the context object it holds (0: undefined)
  onMessageCallback,   \* per agent, whether its onMessageCallback is set
  conversationHistory, \* per context object, its conversationHistory
  initCalls,           \* initialize() calls suspended at an await
  agentInits,          \* per agent, initialize calls on it since the last shutdown or reset
  lastCall,            \* the orchestrator API call that ended last and how it ended
  apiCalls,            \* orchestrator API calls made so far, per kind of operation
  synthesizing         \* handleToolExecutionResponse calls suspended at the synthesis

orchestratorVars == <<isInitialized, context, onMessageCallback, conversationHistory,
                      initCalls, agentInits, lastCall, apiCalls, synthesizing>>

agentVars == <<mainAgentBus, toolsAgentBus, deliveries, handledLog, clock, submitted,
               sendCount, lastSend, orchestratorVars>>

\* one executeTools call on a TwoAgentSystem
VARIABLES
  exEnabled,         \* TwoAgentSystem.isEnabled
  exCalls,           \* the toolCalls argument, each with how its executeTool call goes
  exState,           \* where the executeTools call stands
  exResults          \* the results array

execVars == <<exEnabled, exCalls, exState, exResults>>

\* one AgentCliIntegration
VARIABLES
  cliEnabled,        \* config.isTwoAgentModeEnabled()
  twoAgentSystem,    \* AgentCliIntegration.twoAgentSystem: "null" or "set"
  cliInitPc,         \* where the initialize() call in flight stands
  cliShutPc,         \* where the shutdown() call in flight stands
  sysInitialized,    \* isInitialized of the orchestrator created last
  cliCompleted,      \* an initialize() call has completed and shutdown() was not called since
  cliLast,           \* the processUserInput call made last and how it ended
  cliCalls           \* calls made on the integration so far

cliVars == <<cliEnabled, twoAgentSystem, cliInitPc, cliShutPc, sysInitialized,
             cliCompleted, cliLast, cliCalls>>

\* a session of requests to the tools that ask for confirmation
VARIABLES
  htbWhitelist,      \* HTBScannerTool.whitelist
  nmapWhitelist,     \* NmapTool.whitelist
  configApprovalMode, \* config.getApprovalMode() as WebAnalyzerTool reads it
  cfReq,             \* the request in hand: the tool and its params
  cfStatus,          \* status of its record
  cfAsked,           \* whether its hook returned a confirmation descriptor
  cfShown,           \* the command of the confirmation descriptor shown for it
  cfRun,             \* the command its execute spawned
  cfAlways,          \* requests whose confirmation was resolved with ProceedAlways
  cfDone             \* requests scheduled so far

confirmVars == <<htbWhitelist, nmapWhitelist, configApprovalMode, cfReq, cfStatus, cfAsked, cfShown,
                 cfRun, cfAlways, cfDone>>

\* loadTwoAgentConfig calls in one process
VARIABLES
  defaultConfig,     \* DEFAULT_TWO_AGENT_CONFIG as it reads now
  loadEnv,           \* process.env and config.getDebugMode() at the latest call
  loaded,            \* the configuration the latest call returned
  loads              \* calls made so far

configVars == <<defaultConfig, loadEnv, loaded, loads>>

integrationVars == <<execVars, cliVars, confirmVars, configVars>>

\* what the steps of the scheduler leave alone
outsideScheduler == <<toolCallVars, turnVars, driverVars, agentVars,
                    integrationVars>>

\* what the steps of the one NmapTool request leave alone
outsideToolCall == <<schedulerVars, turnVars, driverVars, agentVars,
                    integrationVars>>

\* what the steps of the Turn leave alone
outsideTurn == <<approvalMode, schedulerVars, toolCallVars, driverVars, agentVars,
                    integrationVars>>

\* what the steps of the driver loop leave alone
outsideDriver == <<approvalMode, schedulerVars, toolCallVars, turnVars, agentVars,
                    integrationVars>>

\* what the steps of executeTools leave alone
outsideExec == <<approvalMode, aborted, schedulerVars, toolCallVars, turnVars, driverVars,
                 agentVars, cliVars, confirmVars, configVars>>

\* what the steps of the AgentCliIntegration leave alone
outsideCli == <<approvalMode, aborted, schedulerVars, toolCallVars, turnVars, driverVars,
                agentVars, execVars, confirmVars, configVars>>

\* what the steps of the confirmation session leave alone
outsideConfirm == <<approvalMode, aborted, schedulerVars, toolCallVars, turnVars, driverVars,
                    agentVars, execVars, cliVars, configVars>>

\* what the calls of loadTwoAgentConfig leave alone
outsideConfig == <<approvalMode, aborted, schedulerVars, toolCallVars, turnVars, driverVars,
                   agentVars, execVars, cliVars, confirmVars>>

\* what the steps of the two agents and their buses leave alone
outsideAgents == <<approvalMode, aborted, schedulerVars, toolCallVars, turnVars, driverVars,
                    integrationVars>>

vars == <<toolCalls, approvalMode, preApproved, pc, reqs, idx, aborted, pending,
          nextId, batchOf, offTrack, completed, notifications, cancelSet,
          outsideScheduler>>

\* ------------------------------------------------------------------ helpers
Min(a, b) == IF a < b THEN a ELSE b

Recs(tc) == {tc[i] : i \in DOMAIN tc}

Ids(tc) == {r.callId : r \in Recs(tc)}

StatusIn(tc, id) ==
  IF id \in Ids(tc) THEN (CHOOSE r \in Recs(tc) : r.callId = id).status ELSE "none"

\* --------------------------------------------------- scheduler internals
\* The helpers thread the scheduler state S through a handler: tc = toolCalls,
\* t = the status updates the handler has made so far.

\* isRunning(): some record of the scheduler is not terminal.
IsRunning(tc) == \E r \in Recs(tc) : r.status \in NonTerminal

\* setStatusInternal(callId, status): records in a terminal state are left alone.
SetStatusInternal(S, id, st) ==
  LET hit(r) == r.callId = id /\ r.status \notin Terminal
  IN [tc |-> [i \in DOMAIN S.tc |->
                IF hit(S.tc[i]) THEN [S.tc[i] EXCEPT !.status = st] ELSE S.tc[i]],
      t  |-> S.t \cup {[callId |-> id, from |-> r.status, to |-> st] :
                          r \in {q \in Recs(S.tc) : hit(q)}}]

\* mutant of NewToolCall: the registry lookup is not checked
NewToolCall_NoLookup(req) ==
  [callId |-> req.callId, name |-> req.name, status |-> "validating"]

\* one record of newToolCalls
NewToolCall(req) ==
  IF req.name \notin Registry
  THEN [callId |-> req.callId, name |-> req.name, status |-> "error"]
  ELSE [callId |-> req.callId, name |-> req.name, status |-> "validating"]

\* mutant of Concat: one unknown tool makes schedule drop the whole batch
Concat_DropOnUnknown(S, rs) ==
  IF \E i \in DOMAIN rs : rs[i].name \notin Registry
  THEN S
  ELSE [tc |-> S.tc \o [i \in DOMAIN rs |-> NewToolCall(rs[i])],
        t  |-> S.t \cup {[callId |-> rs[i].callId, from |-> "none",
                           to |-> NewToolCall(rs[i]).status] : i \in DOMAIN rs}]

\* this.toolCalls = this.toolCalls.concat(newToolCalls)
Concat(S, rs) ==
  [tc |-> S.tc \o [i \in DOMAIN rs |-> NewToolCall(rs[i])],
   t  |-> S.t \cup {[callId |-> rs[i].callId, from |-> "none",
                      to |-> NewToolCall(rs[i]).status] : i \in DOMAIN rs}]

\* mutant of ConfirmStatus: the confirmation descriptor is ignored
ConfirmStatus_IgnoreDetails(res) == IF res = "throws" THEN "error" ELSE "scheduled"

\* status the intake gives a record from the result of its confirmation hook
ConfirmStatus(res) ==
  CASE res = "details" -> "awaiting_approval"
    [] res = "false"   -> "scheduled"
    [] res = "throws"  -> "error"

\* mutant of CallsToExecute: every record not started yet is started
CallsToExecute_AnyUnstarted(tc) ==
  {r.callId : r \in {q \in Recs(tc) :
                       q.status \in {"validating", "awaiting_approval", "scheduled"}}}

\* mutant of CallsToExecute: only the first scheduled record is started
CallsToExecute_FirstOnly(tc) ==
  LET at == {i \in DOMAIN tc : tc[i].status = "scheduled"}
  IN {tc[i].callId : i \in {j \in at : \A k \in at : j <= k}}

\* the records attemptExecutionOfScheduledCalls starts
CallsToExecute(tc) == {r.callId : r \in {q \in Recs(tc) : q.status = "scheduled"}}

\* attemptExecutionOfScheduledCalls: every record it starts becomes executing
AttemptExecution(S) ==
  LET ids == CallsToExecute(S.tc)
  IN [tc |-> [i \in DOMAIN S.tc |->
                IF S.tc[i].callId \in ids
                THEN [S.tc[i] EXCEPT !.status = "executing"] ELSE S.tc[i]],
      t  |-> S.t \cup {[callId |-> r.callId, from |-> r.status, to |-> "executing"] :
                          r \in {q \in Recs(S.tc) : q.callId \in ids}}]

\* the batch is complete once every record is terminal
AllTerminal(tc) == tc # <<>> /\ \A r \in Recs(tc) : r.status \in Terminal

\* index of the next record of the batch the intake loop does not skip (0: none)
NextValidating(rs, i) ==
  LET left == {j \in DOMAIN rs : j >= i /\ NewToolCall(rs[j]).status = "validating"}
  IN IF left = {} THEN 0 ELSE CHOOSE j \in left : \A k \in left : j <= k

\* YOLO intake: every record of the batch the loop does not skip becomes scheduled
ScheduleAll(S, rs) ==
  LET ids == {rs[j].callId : j \in {k \in DOMAIN rs : NewToolCall(rs[k]).status = "validating"}}
      hit(r) == r.callId \in ids /\ r.status \notin Terminal
  IN [tc |-> [i \in DOMAIN S.tc |->
                IF hit(S.tc[i]) THEN [S.tc[i] EXCEPT !.status = "scheduled"] ELSE S.tc[i]],
      t  |-> S.t \cup {[callId |-> r.callId, from |-> r.status, to |-> "scheduled"] :
                          r \in {q \in Recs(S.tc) : hit(q)}}]

\* the .then handler of an execute() promise
ThenStatus == IF aborted THEN "cancelled" ELSE "success"

\* mutant of CatchStatus: the handler leaves the record as it is
CatchStatus_NoUpdate == "executing"

\* the .catch handler of an execute() promise
CatchStatus == "error"

\* resolvePendingApproval: the status an outcome gives the record
ResolveStatus(outcome) == IF outcome = "Reject" THEN "cancelled" ELSE "scheduled"

\* mutant of Resolvable: the state of the record is not checked
Resolvable_AnyLive(tc) == {r.callId : r \in {q \in Recs(tc) : q.status \in NonTerminal}}

\* the records resolvePendingApproval acts on
Resolvable(tc) == {r.callId : r \in {q \in Recs(tc) : q.status = "awaiting_approval"}}

\* the records whose confirmation hook has been called and not yet answered
HookAwaited == {reqs[s][idx[s]].callId : s \in {u \in Invocations : pc[u] = "intake"}}

\* the lifecycle of a record (ToolCall.status), "none" standing for no record yet
Lifecycle ==
  {<<"none", "validating">>, <<"none", "error">>,
   <<"validating", "error">>, <<"validating", "awaiting_approval">>,
   <<"validating", "scheduled">>,
   <<"awaiting_approval", "scheduled">>, <<"awaiting_approval", "cancelled">>,
   <<"scheduled", "executing">>,
   <<"executing", "success">>, <<"executing", "error">>, <<"executing", "cancelled">>}

\* the status updates of a handler that are no edge of the lifecycle
OffTrack(t) == {<<u.from, u.to>> : u \in {v \in t : <<v.from, v.to>> \notin Lifecycle}}

\* ------------------------------------------------------------------- Init
\* no request to NmapTool is under way
ToolCallIdle ==
  /\ tcParams = "none"
  /\ tcStatus = "none"
  /\ tcPromise = "none"
  /\ tcResponse = [kind |-> "none", text |-> "none"]

\* the scheduler before any schedule call
SchedulerIdle ==
  /\ toolCalls = <<>>
  /\ preApproved = {}
  /\ pc = [s \in Invocations |-> "idle"]
  /\ reqs = [s \in Invocations |-> <<>>]
  /\ idx = [s \in Invocations |-> 0]
  /\ pending = {}
  /\ nextId = 1
  /\ batchOf = [c \in CallIds |-> 0]
  /\ offTrack = {}
  /\ completed = <<>>
  /\ notifications = [s \in Invocations |-> 0]
  /\ cancelSet = {}

\* no Turn has been run
TurnIdle ==
  /\ turnPc = "idle"
  /\ resp = [thought |-> FALSE, text |-> FALSE, functionCalls |-> <<>>]
  /\ fnIdx = 0
  /\ chunkNo = 0
  /\ events = <<>>
  /\ pendingToolCalls = <<>>
  /\ now = 1000
  /\ handled = <<>>
  /\ requested = 0

\* sendMessageStream has not been called
DriverIdle ==
  /\ drvPc = "idle"
  /\ turnsArg = 0
  /\ budget = 0
  /\ depth = 0
  /\ turnsRun = 0
  /\ backendCalled = FALSE
  /\ policyAsked = 0
  /\ lastAnswer = "none"
  /\ lastPendingEmpty = FALSE
  /\ request = "none"

\* the other components at rest
\* the orchestrator, its two agents and its two buses after the constructor:
\* wired, not initialized, nothing sent yet
AgentsIdle ==
  /\ mainAgentBus = <<>>
  /\ toolsAgentBus = <<>>
  /\ deliveries = {}
  /\ handledLog = {}
  /\ clock = 1000
  /\ submitted = 0
  /\ sendCount = 0
  /\ lastSend = [bus |-> "none", events |-> <<>>]
  /\ isInitialized = FALSE
  /\ context = [a \in {"main", "tools"} |-> 0]
  /\ onMessageCallback = [a \in {"main", "tools"} |-> TRUE]
  /\ conversationHistory = [c \in 1..MaxInits |-> <<>>]
  /\ initCalls = {}
  /\ agentInits = [a \in {"main", "tools"} |-> 0]
  /\ lastCall = [op |-> "none", inited |-> FALSE, result |-> "none", sent |-> 0]
  /\ apiCalls = [initialize |-> 0, shutdown |-> 0, handleUserInput |-> 0, other |-> 0]
  /\ synthesizing = {}

\* no executeTools call made
ExecIdle ==
  /\ exEnabled = TRUE
  /\ exCalls = <<>>
  /\ exState = "idle"
  /\ exResults = <<>>

\* the AgentCliIntegration after its constructor
CliIdle ==
  /\ cliEnabled = TRUE
  /\ twoAgentSystem = "null"
  /\ cliInitPc = "idle"
  /\ cliShutPc = "idle"
  /\ sysInitialized = FALSE
  /\ cliCompleted = FALSE
  /\ cliLast = [result |-> "none", completed |-> FALSE]
  /\ cliCalls = 0

\* no command: nothing shown, nothing spawned
NoCommand == [built |-> "none", from |-> <<>>]

\* the tools after their constructors, no request made
ConfirmIdle ==
  /\ htbWhitelist = {}
  /\ nmapWhitelist = {}
  /\ configApprovalMode = "DEFAULT"
  /\ cfReq = [tool |-> "none", params |-> <<>>]
  /\ cfStatus = "none"
  /\ cfShown = NoCommand
  /\ cfAsked = FALSE
  /\ cfRun = NoCommand
  /\ cfAlways = {}
  /\ cfDone = 0

\* DEFAULT_TWO_AGENT_CONFIG as the module defines it (roles, capabilities and
\* the other constant fields left out)
DEFAULT_TWO_AGENT_CONFIG ==
  [enabled |-> TRUE,
   mainAgent |-> [model |-> "DEFAULT_GEMINI_MODEL"],
   toolsAgent |-> [model |-> "DEFAULT_GEMINI_TOOL_MODEL"],
   communication |-> [debugging |-> FALSE]]

\* no variable set, debug mode off
NoEnv == [GEMINI_TWO_AGENT_MODE |-> "undefined", GEMINI_MAIN_AGENT_MODEL |-> "undefined",
          GEMINI_TOOL_AGENT_MODEL |-> "undefined", debugMode |-> FALSE]

\* the module loaded, loadTwoAgentConfig not called yet
ConfigIdle ==
  /\ defaultConfig = DEFAULT_TWO_AGENT_CONFIG
  /\ loadEnv = NoEnv
  /\ loaded = DEFAULT_TWO_AGENT_CONFIG
  /\ loads = 0

IntegrationIdle == ExecIdle /\ CliIdle /\ ConfirmIdle /\ ConfigIdle

OutsideSchedulerIdle ==
  ToolCallIdle /\ TurnIdle /\ DriverIdle /\ AgentsIdle /\ IntegrationIdle

Init ==
  /\ toolCalls = <<>>
  /\ approvalMode \in ApprovalModes
  /\ preApproved = {}
  /\ pc = [s \in Invocations |-> "idle"]
  /\ reqs = [s \in Invocations |-> <<>>]
  /\ idx = [s \in Invocations |-> 0]
  /\ aborted = FALSE
  /\ pending = {}
  /\ nextId = 1
  /\ batchOf = [c \in CallIds |-> 0]
  /\ offTrack = {}
  /\ completed = <<>>
  /\ notifications = [s \in Invocations |-> 0]
  /\ cancelSet = {}
  /\ OutsideSchedulerIdle

\* ---------------------------------------------------------------- actions
\* The completion check that ends every handler: once all records are terminal
\* they are handed to onAllToolCallsComplete and leave the scheduler.
\* old: the payload of the latest completion call that is still kept.
Commit(S, old) ==
  /\ offTrack' = offTrack \cup OffTrack(S.t)
  /\ IF AllTerminal(S.tc)
     THEN /\ toolCalls' = <<>>
          /\ completed' = S.tc
          /\ notifications' =
               [s \in Invocations |->
                  IF \E r \in Recs(S.tc) : batchOf[r.callId] = s
                  THEN notifications[s] + 1 ELSE notifications[s]]
     ELSE /\ toolCalls' = S.tc
          /\ completed' = old
          /\ UNCHANGED notifications

\* The end of the intake loop of invocation s, from scheduler state S on:
\* attemptExecutionOfScheduledCalls(signal), then the completion check.
FinishIntake(S, s, old) ==
  /\ Commit(AttemptExecution(S), old)
  /\ pending' = pending \cup CallsToExecute(S.tc)
  /\ pc' = [pc EXCEPT ![s] = "done"]
  /\ idx' = [idx EXCEPT ![s] = 0]
  /\ reqs' = [reqs EXCEPT ![s] = <<>>]

\* The intake loop of invocation s from index i on, in DEFAULT mode: it stops at
\* the first record it does not skip, whose confirmation hook it calls and awaits.
ContinueIntake(S, s, i, old) ==
  LET j == NextValidating(reqs[s], i)
  IN IF j = 0
     THEN FinishIntake(S, s, old)
     ELSE /\ toolCalls' = S.tc
          /\ offTrack' = offTrack \cup OffTrack(S.t)
          /\ completed' = old
          /\ pc' = [pc EXCEPT ![s] = "intake"]
          /\ idx' = [idx EXCEPT ![s] = j]
          /\ UNCHANGED <<notifications, pending, reqs>>

\* schedule(request, signal) up to its first await: the isRunning check.
ScheduleCall(s) ==
  /\ pc[s] = "idle"
  /\ \A t \in Invocations : t < s => pc[t] # "idle"
  /\ IF IsRunning(toolCalls)
     THEN /\ pc' = [pc EXCEPT ![s] = "threw"]
          /\ UNCHANGED <<reqs, nextId, batchOf>>
     ELSE /\ nextId <= MaxCalls
          /\ \E n \in 1..Min(MaxBatch, MaxCalls - nextId + 1) :
               \E names \in [1..n -> ToolNames] :
                 /\ reqs' = [reqs EXCEPT ![s] =
                       [i \in 1..n |-> [callId |-> nextId + i - 1, name |-> names[i]]]]
                 /\ nextId' = nextId + n
                 /\ batchOf' = [c \in CallIds |->
                                  IF c \in nextId..(nextId + n - 1) THEN s ELSE batchOf[c]]
          /\ pc' = [pc EXCEPT ![s] = "awaitRegistry"]
  /\ UNCHANGED <<toolCalls, approvalMode, preApproved, idx, aborted, pending, offTrack,
                 completed, notifications, cancelSet, outsideScheduler>>

\* schedule() resumed after `await this.toolRegistry`: the records are created
\* and added, and the intake loop runs to its first await or to its end.
ScheduleResume(s) ==
  /\ pc[s] = "awaitRegistry"
  /\ LET S == Concat([tc |-> toolCalls, t |-> {}], reqs[s])
     IN IF approvalMode = "YOLO"
        THEN FinishIntake(ScheduleAll(S, reqs[s]), s, <<>>)
        ELSE ContinueIntake(S, s, 1, <<>>)
  /\ cancelSet' = cancelSet \cap Ids(toolCalls)
  /\ UNCHANGED <<approvalMode, preApproved, aborted, nextId, batchOf, outsideScheduler>>

\* schedule() resumed after `await toolInstance.shouldConfirmExecute(...)`.
ConfirmResolved(s, res) ==
  /\ pc[s] = "intake"
  /\ LET S == SetStatusInternal([tc |-> toolCalls, t |-> {}],
                                reqs[s][idx[s]].callId, ConfirmStatus(res))
     IN ContinueIntake(S, s, idx[s] + 1, completed)
  /\ UNCHANGED <<approvalMode, preApproved, aborted, nextId, batchOf, cancelSet,
                 outsideScheduler>>

\* mutant of Settle: a rejection fails every executing record and drops their promises
Settle_FailFast(c, st) ==
  LET S0 == [tc |-> toolCalls, t |-> {}]
      S1 == IF st = "error"
            THEN [tc |-> [i \in DOMAIN toolCalls |->
                            IF toolCalls[i].status = "executing"
                            THEN [toolCalls[i] EXCEPT !.status = "error"] ELSE toolCalls[i]],
                  t  |-> {[callId |-> r.callId, from |-> r.status, to |-> "error"] :
                            r \in {q \in Recs(toolCalls) : q.status = "executing"}}]
            ELSE SetStatusInternal(S0, c, st)
  IN /\ Commit(S1, completed)
     /\ pending' = IF st = "error" THEN {} ELSE pending \ {c}
     /\ UNCHANGED <<approvalMode, preApproved, pc, reqs, idx, aborted, nextId, batchOf,
                    cancelSet, outsideScheduler>>

\* A settled execute() promise runs its handler, then the completion check.
Settle(c, st) ==
  /\ Commit(SetStatusInternal([tc |-> toolCalls, t |-> {}], c, st), completed)
  /\ pending' = pending \ {c}
  /\ UNCHANGED <<approvalMode, preApproved, pc, reqs, idx, aborted, nextId, batchOf,
                 cancelSet, outsideScheduler>>

ExecuteResolves(c) == c \in pending /\ Settle(c, ThenStatus)

ExecuteRejects(c) == c \in pending /\ Settle(c, CatchStatus)

\* The caller signals the cancellation token.
Abort ==
  /\ \E s \in Invocations : pc[s] \in {"awaitRegistry", "intake", "done"}
  /\ ~aborted
  /\ aborted' = TRUE
  /\ cancelSet' =
       IF \A r \in Recs(toolCalls) : r.status \notin Terminal
       THEN {r.callId : r \in {q \in Recs(toolCalls) :
                                 q.status \in {"executing", "awaiting_approval"}}}
       ELSE {}
  /\ UNCHANGED <<toolCalls, approvalMode, preApproved, pc, reqs, idx, pending, nextId,
                 batchOf, offTrack, completed, notifications, outsideScheduler>>

\* resolvePendingApproval(callId, outcome)
ResolvePendingApproval(c, outcome) ==
  /\ c < nextId
  /\ IF c \in Resolvable(toolCalls)
     THEN LET S == SetStatusInternal([tc |-> toolCalls, t |-> {}], c, ResolveStatus(outcome))
          IN /\ Commit(AttemptExecution(S), completed)
             /\ pending' = pending \cup CallsToExecute(S.tc)
             /\ preApproved' =
                  IF outcome = "ProceedAlways"
                  THEN preApproved \cup {(CHOOSE r \in Recs(toolCalls) : r.callId = c).name}
                  ELSE preApproved
     ELSE UNCHANGED <<toolCalls, offTrack, completed, notifications, pending, preApproved>>
  /\ UNCHANGED <<approvalMode, pc, reqs, idx, aborted, nextId, batchOf, cancelSet,
                 outsideScheduler>>

Next ==
  \/ \E s \in Invocations : ScheduleCall(s)
  \/ \E s \in Invocations : ScheduleResume(s)
  \/ \E s \in Invocations : \E res \in ConfirmResults : ConfirmResolved(s, res)
  \/ \E c \in CallIds : ExecuteResolves(c)
  \/ \E c \in CallIds : ExecuteRejects(c)
  \/ Abort
  \/ \E c \in CallIds : \E o \in Outcomes : ResolvePendingApproval(c, o)

Spec == Init /\ [][Next]_vars

\* The steps that need no move of the caller: an await of the scheduler resumes,
\* a promise of a tool settles, a pending approval is answered.
Progress ==
  \/ \E s \in Invocations : ScheduleResume(s)
  \/ \E s \in Invocations : \E res \in ConfirmResults : ConfirmResolved(s, res)
  \/ \E c \in CallIds : ExecuteResolves(c) \/ ExecuteRejects(c)
  \/ \E c \in CallIds : \E o \in Outcomes : ResolvePendingApproval(c, o)

\* As long as such a step is possible, one of them is taken; the caller need
\* neither schedule nor cancel.
Fairness == WF_vars(Progress)

FairSpec == Spec /\ Fairness

TypeOK ==
  /\ \A r \in Recs(toolCalls) : r.status \in Terminal \cup NonTerminal
  /\ nextId \in 1..(MaxCalls + 1)
  /\ pending \subseteq Ids(toolCalls)

\* the status of record c after a step: in the scheduler, or in the payload the
\* step handed to onAllToolCallsComplete
After(c) ==
  IF c \in Ids(toolCalls') THEN StatusIn(toolCalls', c) ELSE StatusIn(completed', c)

\* ------------------------------------------------------------------ claims

\* the scheduler holds a record, or a batch it accepted and has not added yet
Busy == toolCalls # <<>> \/ \E s \in Invocations : pc[s] = "awaitRegistry"

C2_LifecycleRespected == offTrack = {}

C2_Witness ==
  /\ aborted
  /\ \E r \in Recs(toolCalls) : r.status = "cancelled"
  /\ \E r \in Recs(toolCalls) : r.status = "executing"

\* C3: a record whose request names a tool the registry does not know is in
\* state Error from intake on, and neither execute nor the confirmation hook
\* is ever called for it.
C3_UnknownToolIsError ==
  /\ \A r \in Recs(toolCalls) :
       r.name \notin Registry =>
         r.status = "error" /\ r.callId \notin pending /\ r.callId \notin HookAwaited
  /\ \A r \in Recs(completed) : r.name \notin Registry => r.status = "error"

C3_Witness ==
  /\ \E r \in Recs(toolCalls) : r.name \notin Registry /\ r.status = "error"
  /\ \E r \in Recs(toolCalls) : r.status = "executing"

\* the invocations with a non-terminal record in the scheduler
InFlight == {batchOf[r.callId] : r \in {q \in Recs(toolCalls) : q.status \in NonTerminal}}

\* C4: the scheduler never holds two in-flight batches: a schedule call made
\* while an earlier batch is not terminal raises and adds no record.
C4_OneBatchInFlight == Cardinality(InFlight) <= 1

\* C5: once the token is signalled while no record has completed, no record
\* that was Executing or AwaitingApproval at that moment ends in Success or
\* Error.
C5_CancelledNeverSuccessOrError ==
  \A c \in cancelSet :
    /\ StatusIn(toolCalls, c) \notin {"success", "error"}
    /\ StatusIn(completed, c) \notin {"success", "error"}

\* C6: a resolvePendingApproval call for a record that is no longer in
\* AwaitingApproval (an earlier call moved it out) changes no record, starts no
\* execution and leaves the pre-approved set alone, whatever its outcome.
C6_SecondResolveHasNoEffect ==
  [][\A c \in CallIds : \A o \in Outcomes :
       (ResolvePendingApproval(c, o) /\ StatusIn(toolCalls, c) # "awaiting_approval")
         => UNCHANGED <<toolCalls, pending, preApproved, completed, notifications>>]_vars

C6_Witness ==
  /\ nextId = 2
  /\ preApproved # {}
  /\ \E r \in Recs(toolCalls) : r.status = "executing"

\* the batch of invocation s has been added to the scheduler
Added(s) == pc[s] \in {"intake", "done"}

\* C7: in a batch that mixes known and unknown tools the unknown-tool records
\* end in Error, the others end as their own run decides (Success when the tool
\* returns and nothing was cancelled), and the batch-complete notification
\* fires exactly once for the batch: once all its records have left, never before.
C7_MixedBatchCompletesOnce ==
  /\ \A r \in Recs(completed) : r.name \notin Registry => r.status = "error"
  /\ \A r \in Recs(completed) :
       (r.name \in Registry /\ approvalMode = "YOLO" /\ ~aborted) =>
         r.status \in {"success", "error"}
  /\ \A s \in Invocations :
       notifications[s] =
         IF Added(s) /\ ~\E c \in Ids(toolCalls) : batchOf[c] = s THEN 1 ELSE 0

C7_Witness ==
  /\ Len(completed) = 3
  /\ \E i, j, k \in 1..3 :
       /\ {i, j, k} = 1..3
       /\ completed[i].status = "success" /\ completed[j].status = "success"
       /\ completed[k].status = "error" /\ completed[k].name \notin Registry
  /\ \A s \in Invocations : notifications[s] = IF s = 1 THEN 1 ELSE 0

\* C8: under the interactive policy a record whose hook returned a confirmation
\* descriptor goes from Validating to AwaitingApproval without being started; a
\* record in AwaitingApproval is started only by a proceed outcome resolved for
\* it; a Reject outcome ends it in Cancelled without execute being called.
C8_NoExecuteWithoutProceed ==
  [][/\ \A s \in Invocations :
          (pc[s] = "intake" /\ ConfirmResolved(s, "details")) =>
            /\ StatusIn(toolCalls', reqs[s][idx[s]].callId) = "awaiting_approval"
            /\ reqs[s][idx[s]].callId \notin pending'
     /\ \A c \in Resolvable(toolCalls) :
          /\ c \in pending' =>
               \E o \in {"ProceedOnce", "ProceedAlways"} : ResolvePendingApproval(c, o)
          /\ After(c) # "awaiting_approval" =>
               \E o \in Outcomes : ResolvePendingApproval(c, o)
          /\ ResolvePendingApproval(c, "Reject") =>
               After(c) = "cancelled" /\ c \notin pending']_vars

C8_Witness ==
  /\ approvalMode = "DEFAULT"
  /\ ~aborted
  /\ \E r \in Recs(completed) : r.status = "cancelled"

\* C9: an exception thrown by one tool's execute makes that record Error and
\* nothing else: no other record changes state, no promise of a sibling is
\* dropped and no schedule invocation is disturbed.
C9_ExceptionStaysLocal ==
  [][\A c \in CallIds :
       ExecuteRejects(c) =>
         /\ After(c) = "error"
         /\ \A d \in Ids(toolCalls) \ {c} : After(d) = StatusIn(toolCalls, d)
         /\ pending' = pending \ {c}
         /\ pc' = pc]_vars

C9_Witness ==
  /\ approvalMode = "YOLO"
  /\ \E r \in Recs(toolCalls) : r.name \in Registry /\ r.status = "error"
  /\ \E r \in Recs(toolCalls) : r.status = "executing"

\* C10: the Scheduled records are all started together: a record is Scheduled
\* only while an intake loop is still awaiting a confirmation hook, every
\* Executing record has its execute call in flight, and several records
\* execute at once.
C10_ScheduledStartTogether ==
  /\ (\E r \in Recs(toolCalls) : r.status = "scheduled") =>
        \E s \in Invocations : pc[s] = "intake"
  /\ \A r \in Recs(toolCalls) : r.status = "executing" <=> r.callId \in pending

C10_Witness ==
  /\ Cardinality({r \in Recs(toolCalls) : r.status = "executing"}) >= 2
  /\ Cardinality(pending) >= 2
  /\ \A s \in Invocations : pc[s] \in {"done", "idle"}

\* ======================================================================
\* One request to NmapTool through the scheduler (ToolCallSpec)
\* ======================================================================

\* NmapToolParams, by what validateToolParams looks at
NmapParams ==
  [schema       : BOOLEAN,                          \* passes SchemaValidator.validate
   target       : {"blank", "malformed", "host"},
   ports        : {"absent", "malformed", "list"},
   scan_type    : {"quick", "custom", "script"},
   custom_flags : BOOLEAN,                          \* custom_flags given
   scripts      : BOOLEAN]                          \* scripts given

\* NmapTool.validateToolParams: the message of the first failed check, or "null"
ValidateToolParams(p) ==
  IF ~p.schema THEN "Parameters failed schema validation."
  ELSE IF p.target = "blank" THEN "Target cannot be empty."
  ELSE IF p.target = "malformed" THEN "Invalid target format."
  ELSE IF p.ports = "malformed" THEN "Invalid ports format."
  ELSE IF p.scan_type = "custom" /\ ~p.custom_flags
       THEN "Custom scan type requires custom_flags parameter."
  ELSE IF p.scan_type = "script" /\ ~p.scripts
       THEN "Script scan type should specify scripts parameter."
  ELSE "null"

ShouldConfirmExecute_Whitelisted(p) ==
  IF ValidateToolParams(p) # "null" \/ "nmap" \in nmapWhitelist THEN "false" ELSE "details"

\* NmapTool.shouldConfirmExecute: false when validation fails, else the descriptor
ShouldConfirmExecute(p) == IF ValidateToolParams(p) # "null" THEN "false" ELSE "details"

\* NmapTool.execute up to the spawn: what the call finds on entry
ExecuteEntry(p, sig) ==
  IF ValidateToolParams(p) # "null" THEN "rejected"
  ELSE IF sig THEN "cancelled_before_start"
  ELSE "spawned"

\* how a spawned nmap ends: the child fails to start, is killed, or closes
ChildEnds == {"error", "killed", "close"}

\* the ToolResult the promise of execute resolves with
ToolResultOf(p, entry, child) ==
  CASE entry = "rejected" ->
         [kind |-> "Nmap scan rejected", text |-> ValidateToolParams(p)]
    [] entry = "cancelled_before_start" ->
         [kind |-> "Nmap scan was cancelled by user before it could start.", text |-> "none"]
    [] entry = "spawned" /\ child = "error" ->
         [kind |-> "Nmap scan failed", text |-> "none"]
    [] entry = "spawned" /\ child = "killed" ->
         [kind |-> "Nmap scan was cancelled by user.", text |-> "none"]
    [] entry = "spawned" /\ child = "close" ->
         [kind |-> "summary", text |-> "none"]

\* the request of the ToolCallSpec
NmapRequest == [callId |-> 1, name |-> "nmap_scan"]

\* attemptExecutionOfScheduledCalls on the one record: a scheduled record becomes
\* executing and execute() is called
StartIfScheduled(st) ==
  IF st = "scheduled"
  THEN /\ tcStatus' = "executing"
       /\ tcPromise' = ExecuteEntry(tcParams, aborted)
  ELSE /\ tcStatus' = st
       /\ tcPromise' = tcPromise

ToolCallInit ==
  /\ IntegrationIdle
  /\ tcParams \in NmapParams
  /\ tcStatus = "none"
  /\ tcPromise = "none"
  /\ tcResponse = [kind |-> "none", text |-> "none"]
  /\ approvalMode \in ApprovalModes
  /\ aborted = FALSE
  /\ SchedulerIdle
  /\ TurnIdle
  /\ DriverIdle
  /\ AgentsIdle

\* schedule([request], signal): the record is created; under YOLO it is scheduled
\* and started at once, otherwise the confirmation hook is called and awaited
ToolSchedule ==
  /\ tcStatus = "none"
  /\ LET st == NewToolCall(NmapRequest).status
     IN StartIfScheduled(IF st = "validating" /\ approvalMode = "YOLO"
                         THEN "scheduled" ELSE st)
  /\ UNCHANGED <<tcParams, tcResponse, approvalMode, aborted, outsideToolCall>>

\* schedule resumed with the answer of NmapTool.shouldConfirmExecute
ToolConfirmReturns ==
  /\ tcStatus = "validating"
  /\ StartIfScheduled(ConfirmStatus(ShouldConfirmExecute(tcParams)))
  /\ UNCHANGED <<tcParams, tcResponse, approvalMode, aborted, outsideToolCall>>

\* resolvePendingApproval for the record
ToolResolveApproval(outcome) ==
  /\ tcStatus = "awaiting_approval"
  /\ StartIfScheduled(ResolveStatus(outcome))
  /\ UNCHANGED <<tcParams, tcResponse, approvalMode, aborted, outsideToolCall>>

\* the promise of execute() resolves and its .then handler runs
ToolExecuteResolves(child) ==
  /\ tcStatus = "executing"
  /\ child = "killed" => aborted
  /\ tcStatus' = ThenStatus
  /\ tcResponse' = IF aborted
                   THEN [kind |-> "User cancelled tool execution.", text |-> "none"]
                   ELSE ToolResultOf(tcParams, tcPromise, child)
  /\ UNCHANGED <<tcParams, tcPromise, approvalMode, aborted, outsideToolCall>>

\* the caller signals the cancellation token
ToolAbort ==
  /\ tcStatus \notin Terminal
  /\ ~aborted
  /\ aborted' = TRUE
  /\ UNCHANGED <<toolCallVars, approvalMode, outsideToolCall>>

ToolCallNext ==
  \/ ToolSchedule
  \/ ToolConfirmReturns
  \/ \E o \in Outcomes : ToolResolveApproval(o)
  \/ \E child \in ChildEnds : ToolExecuteResolves(child)
  \/ ToolAbort

ToolCallSpec == ToolCallInit /\ [][ToolCallNext]_vars

\* C11: a request to a registered tool whose parameters fail the tool's
\* validator never reaches Executing, never ends in Success, and once terminal
\* (the token not signalled) is in Error carrying the validator's message.
C11_InvalidParamsEndInError ==
  (ValidateToolParams(tcParams) # "null" /\ tcStatus # "none") =>
    /\ tcStatus \notin {"executing", "success"}
    /\ (tcStatus \in Terminal /\ ~aborted) =>
         /\ tcStatus = "error"
         /\ tcResponse.text = ValidateToolParams(tcParams)

\* ======================================================================
\* One Turn over the response stream of the backend (TurnSpec)
\* ======================================================================

BackendIds == {"none", "call_1"}       \* fnCall.id: absent, or the id the backend gave
FnNames == {"nmap_scan"}              \* fnCall.name
Timestamps == {1000, 1001}             \* readings of Date.now()
RandomSuffixes == {"8c1f", "e07a"}     \* Math.random().toString(16).slice(2)

FnCalls == [id : BackendIds, name : FnNames]

\* a response chunk, by what Turn.run reads of it: parts[0].thought, its text,
\* its functionCalls
NoResp == [thought |-> FALSE, text |-> FALSE, functionCalls |-> <<>>]

Chunks(n) ==
  [thought : BOOLEAN, text : BOOLEAN,
   functionCalls : UNION {[1..k -> FnCalls] : k \in 0..n}]

\* mutant of CallIdOf: the generated id has no random suffix
CallIdOf_NoSuffix(fnCall, t, r) ==
  IF fnCall.id # "none" THEN <<fnCall.id>> ELSE <<fnCall.name, t>>

\* mutant of CallIdOf: an id is generated even when the backend gave one
CallIdOf_AlwaysGenerated(fnCall, t, r) == <<fnCall.name, t, r>>

\* callId = fnCall.id ?? `${fnCall.name}-${Date.now()}-${Math.random()...}`
CallIdOf(fnCall, t, r) ==
  IF fnCall.id # "none" THEN <<fnCall.id>> ELSE <<fnCall.name, t, r>>

\* the ToolCallRequestInfo handlePendingFunctionCall builds
ToolCallRequestOf(fnCall, t, r) ==
  [callId |-> CallIdOf(fnCall, t, r), name |-> fnCall.name, isClientInitiated |-> FALSE]

NoValue == [callId |-> <<>>, name |-> "none", isClientInitiated |-> FALSE]

Event(type, value) == [type |-> type, chunk |-> chunkNo', value |-> value]

\* the ToolCallRequest values among a sequence of events, in order
RECURSIVE RequestsIn(_)
RequestsIn(es) ==
  IF es = <<>> THEN <<>>
  ELSE IF es[1].type = "ToolCallRequest"
       THEN <<es[1].value>> \o RequestsIn(Tail(es))
       ELSE RequestsIn(Tail(es))

\* mutant of HandleCalls: the request is yielded without being kept
HandleCalls_NotKept(chunk, k, t, r) ==
  IF k <= Len(chunk.functionCalls)
  THEN /\ t >= now
       /\ events' = Append(events,
                      Event("ToolCallRequest", ToolCallRequestOf(chunk.functionCalls[k], t, r)))
       /\ handled' = Append(handled, [fnCall |-> chunk.functionCalls[k], time |-> t, suffix |-> r])
       /\ now' = t
       /\ resp' = chunk
       /\ fnIdx' = k
       /\ turnPc' = "afterCall"
       /\ UNCHANGED pendingToolCalls
  ELSE /\ resp' = NoResp
       /\ fnIdx' = 0
       /\ turnPc' = "awaitChunk"
       /\ UNCHANGED <<events, pendingToolCalls, handled, now>>

\* The loop over resp.functionCalls from index k on: handlePendingFunctionCall
\* pushes the request and its event is yielded; past the last call the for-await
\* loop waits for the next chunk.  t, r: Date.now() and the draw of Math.random.
HandleCalls(chunk, k, t, r) ==
  IF k <= Len(chunk.functionCalls)
  THEN /\ t >= now
       /\ pendingToolCalls' =
            Append(pendingToolCalls, ToolCallRequestOf(chunk.functionCalls[k], t, r))
       /\ events' = Append(events,
                      Event("ToolCallRequest", ToolCallRequestOf(chunk.functionCalls[k], t, r)))
       /\ handled' = Append(handled, [fnCall |-> chunk.functionCalls[k], time |-> t, suffix |-> r])
       /\ now' = t
       /\ resp' = chunk
       /\ fnIdx' = k
       /\ turnPc' = "afterCall"
  ELSE /\ resp' = NoResp
       /\ fnIdx' = 0
       /\ turnPc' = "awaitChunk"
       /\ UNCHANGED <<events, pendingToolCalls, handled, now>>

\* mutant of ProcessChunk: the token is not looked at
ProcessChunk_NoCheck(chunk, t, r) ==
  /\ requested' = requested + Len(chunk.functionCalls)
  /\ IF chunk.thought
     THEN /\ events' = Append(events, Event("Thought", NoValue))
          /\ turnPc' = "afterThought"
          /\ resp' = chunk
          /\ UNCHANGED <<fnIdx, pendingToolCalls, handled, now>>
     ELSE IF chunk.text
     THEN /\ events' = Append(events, Event("Content", NoValue))
          /\ turnPc' = "afterContent"
          /\ resp' = chunk
          /\ UNCHANGED <<fnIdx, pendingToolCalls, handled, now>>
     ELSE HandleCalls(chunk, 1, t, r)

\* The body of the for-await loop for a chunk, to its first yield (or to the wait
\* for the next chunk when it yields nothing).
ProcessChunk(chunk, t, r) ==
  IF aborted
  THEN /\ events' = Append(events, Event("UserCancelled", NoValue))
       /\ turnPc' = "cancelled"
       /\ UNCHANGED <<resp, fnIdx, pendingToolCalls, handled, now, requested>>
  ELSE /\ requested' = requested + Len(chunk.functionCalls)
       /\ IF chunk.thought
          THEN /\ events' = Append(events, Event("Thought", NoValue))
               /\ turnPc' = "afterThought"
               /\ resp' = chunk
               /\ UNCHANGED <<fnIdx, pendingToolCalls, handled, now>>
          ELSE IF chunk.text
          THEN /\ events' = Append(events, Event("Content", NoValue))
               /\ turnPc' = "afterContent"
               /\ resp' = chunk
               /\ UNCHANGED <<fnIdx, pendingToolCalls, handled, now>>
          ELSE HandleCalls(chunk, 1, t, r)

TurnInit ==
  /\ IntegrationIdle
  /\ TurnIdle
  /\ aborted = FALSE
  /\ approvalMode = "DEFAULT"
  /\ SchedulerIdle
  /\ ToolCallIdle
  /\ DriverIdle
  /\ AgentsIdle

\* turn.run(req, signal): the stream is requested and the loop waits for a chunk
TurnRun ==
  /\ turnPc = "idle"
  /\ turnPc' = "awaitChunk"
  /\ UNCHANGED <<resp, fnIdx, chunkNo, events, pendingToolCalls, now, handled, requested,
                 aborted, outsideTurn>>

\* the backend delivers the next chunk of the stream
TurnReceive(chunk, t, r) ==
  /\ turnPc = "awaitChunk"
  /\ chunkNo < MaxChunks
  /\ requested + Len(chunk.functionCalls) <= MaxFnCalls
  /\ chunkNo' = chunkNo + 1
  /\ ProcessChunk(chunk, t, r)
  /\ UNCHANGED <<aborted, outsideTurn>>

\* the consumer asks for the next event: the generator resumes after its yield
TurnResume(t, r) ==
  /\ turnPc \in {"afterThought", "afterContent", "afterCall", "cancelled"}
  /\ UNCHANGED <<chunkNo, requested, aborted, outsideTurn>>
  /\ CASE turnPc = "cancelled" ->          \* return
            /\ turnPc' = "done"
            /\ UNCHANGED <<resp, fnIdx, events, pendingToolCalls, handled, now>>
       [] turnPc = "afterThought" ->       \* continue
            /\ turnPc' = "awaitChunk"
            /\ resp' = NoResp
            /\ UNCHANGED <<fnIdx, events, pendingToolCalls, handled, now>>
       [] turnPc = "afterContent" -> HandleCalls(resp, 1, t, r)
       [] turnPc = "afterCall" -> HandleCalls(resp, fnIdx + 1, t, r)

\* the response stream ends: the generator returns
TurnStreamEnds ==
  /\ turnPc = "awaitChunk"
  /\ turnPc' = "done"
  /\ UNCHANGED <<resp, fnIdx, chunkNo, events, pendingToolCalls, now, handled, requested,
                 aborted, outsideTurn>>

\* the caller signals the cancellation token
TurnAbort ==
  /\ turnPc \notin {"idle", "done"}
  /\ ~aborted
  /\ aborted' = TRUE
  /\ UNCHANGED <<turnVars, outsideTurn>>

TurnNext ==
  \/ TurnRun
  \/ \E chunk \in Chunks(MaxFnCalls) : \E t \in Timestamps : \E r \in RandomSuffixes :
       TurnReceive(chunk, t, r)
  \/ \E t \in Timestamps : \E r \in RandomSuffixes : TurnResume(t, r)
  \/ TurnStreamEnds
  \/ TurnAbort

TurnSpec == TurnInit /\ [][TurnNext]_vars

\* the handlePendingFunctionCall calls made for a fnCall without a backend id
Generated == {i \in DOMAIN handled : handled[i].fnCall.id = "none"}

\* two calls of handlePendingFunctionCall got the same inputs for the callId
SameSource(i, j) ==
  \/ /\ handled[i].fnCall.id # "none"
     /\ handled[i].fnCall.id = handled[j].fnCall.id
  \/ /\ i \in Generated /\ j \in Generated
     /\ handled[i].fnCall.name = handled[j].fnCall.name
     /\ handled[i].time = handled[j].time
     /\ handled[i].suffix = handled[j].suffix

C16_EveryCallOfAChunkReported ==
  turnPc \in {"awaitChunk", "cancelled", "done"} =>
    /\ Len(pendingToolCalls) = requested
    /\ Len(RequestsIn(events)) = requested

\* ======================================================================
\* The driver loop, GeminiClient.sendMessageStream (DriverSpec)
\* ======================================================================
\* A Turn is taken by its outcome (pendingToolCalls empty or not) and the
\* continuation policy by its answer.  tryCompressChat changes the chat history
\* only and is left out.  The invocations nest; once the innermost returns
\* every outer one returns its own Turn with no further step.

MAX_TURNS == 100

\* the turns arguments sendMessageStream is called with
TurnArgs == {-1, 0, 1, 2, 3, MAX_TURNS - 1, MAX_TURNS, MAX_TURNS + 1}

\* next_speaker of checkNextSpeaker's answer ("null": no answer)
NextSpeakers == {"model", "user", "null"}

Max(a, b) == IF a > b THEN a ELSE b

\* const boundedTurns = Math.min(turns, this.MAX_TURNS)
BoundedTurns(turns) == Min(turns, MAX_TURNS)

\* mutant of NextBudget: the recursive call passes the budget on as it is
NextBudget_Same(b) == b

\* the turns argument of the recursive call: boundedTurns - 1
NextBudget(b) == b - 1

\* mutant of ShouldAskPolicy: pendingToolCalls is not looked at
ShouldAskPolicy_IgnorePending(pendingEmpty, sig) == ~sig

\* if (!turn.pendingToolCalls.length && signal && !signal.aborted)
ShouldAskPolicy(pendingEmpty, sig) == pendingEmpty /\ ~sig

\* The body of sendMessageStream(req, signal, turns) from its entry to the call
\* of turn.run: with boundedTurns zero it returns at once.
Enter(turns, req) ==
  /\ depth' = depth + 1
  /\ budget' = BoundedTurns(turns)
  /\ IF BoundedTurns(turns) = 0
     THEN /\ drvPc' = "done"
          /\ UNCHANGED <<turnsRun, backendCalled, request>>
     ELSE /\ drvPc' = "turn"
          /\ turnsRun' = turnsRun + 1
          /\ backendCalled' = TRUE
          /\ request' = req

DriverInit ==
  /\ IntegrationIdle
  /\ DriverIdle
  /\ aborted = FALSE
  /\ approvalMode = "DEFAULT"
  /\ SchedulerIdle
  /\ ToolCallIdle
  /\ TurnIdle
  /\ AgentsIdle

\* the caller calls sendMessageStream(request, signal, turns)
DriverCall(turns) ==
  /\ drvPc = "idle"
  /\ turnsArg' = turns
  /\ Enter(turns, "user input")
  /\ UNCHANGED <<policyAsked, lastAnswer, lastPendingEmpty, aborted, outsideDriver>>

\* the Turn's event stream ends; the continuation check follows
DriverTurnCompletes(pendingEmpty) ==
  /\ drvPc = "turn"
  /\ lastPendingEmpty' = pendingEmpty
  /\ IF ShouldAskPolicy(pendingEmpty, aborted)
     THEN /\ drvPc' = "policy"
          /\ policyAsked' = policyAsked + 1
     ELSE /\ drvPc' = "done"
          /\ UNCHANGED policyAsked
  /\ UNCHANGED <<turnsArg, budget, depth, turnsRun, backendCalled, lastAnswer, request,
                 aborted, outsideDriver>>

\* checkNextSpeaker answers; on 'model' sendMessageStream calls itself
DriverPolicyAnswers(ans) ==
  /\ drvPc = "policy"
  /\ lastAnswer' = ans
  /\ IF ans = "model"
     THEN /\ depth < MaxDepth
          /\ Enter(NextBudget(budget), "Please continue.")
     ELSE /\ drvPc' = "done"
          /\ UNCHANGED <<budget, depth, turnsRun, backendCalled, request>>
  /\ UNCHANGED <<turnsArg, policyAsked, lastPendingEmpty, aborted, outsideDriver>>

\* the caller signals the cancellation token
DriverAbort ==
  /\ drvPc \in {"turn", "policy"}
  /\ ~aborted
  /\ aborted' = TRUE
  /\ UNCHANGED <<driverVars, outsideDriver>>

DriverNext ==
  \/ \E turns \in TurnArgs : DriverCall(turns)
  \/ \E pendingEmpty \in BOOLEAN : DriverTurnCompletes(pendingEmpty)
  \/ \E ans \in NextSpeakers : DriverPolicyAnswers(ans)
  \/ DriverAbort

DriverSpec == DriverInit /\ [][DriverNext]_vars

\* C17: whatever the turns argument, the Turns run are at most min(turns, 100)
\* (none for an argument below 1), and with argument zero sendMessageStream
\* returns with no backend call.
C17_TurnsWithinBudget ==
  /\ turnsRun <= Max(0, Min(turnsArg, MAX_TURNS))
  /\ (drvPc # "idle" /\ turnsArg = 0) => (drvPc = "done" /\ ~backendCalled)

\* C18: called with a turn budget of 1, the driver loop runs exactly one Turn:
\* when the Turn requested no tool and the policy answered 'model', the one
\* recursive call returns at once and the loop is over; and every recursive
\* call gets the budget of its caller less one.
C18_BudgetOneRunsOneTurn ==
  /\ []((turnsArg = 1 /\ drvPc # "idle") =>
          /\ turnsRun = 1
          /\ (lastAnswer = "model" => (drvPc = "done" /\ depth = 2 /\ budget = 0)))
  /\ [][(depth' = depth + 1 /\ depth >= 1) => budget' = budget - 1]_vars

C18_Witness ==
  /\ turnsArg = 1
  /\ drvPc = "done"
  /\ lastPendingEmpty
  /\ lastAnswer = "model"
  /\ ~aborted
  /\ turnsRun = 1

AgentTypes == {"main", "tools"}

MessageTypes == {"tool_execution_request", "tool_execution_response",
                 "planning_request", "planning_response", "status_update", "error"}

\* how an awaited generateContent call ends: it resolves, or rejects with an
\* Error, or rejects with a value that is no Error
BackendOutcomes == {"ok", "throws", "throws_non_error"}

Threw(outcome) == outcome # "ok"

\* error.message of the Error a rejected call carries
ErrorMessageOf(outcome) == "fetch failed"

\* `error instanceof Error ? error.message : 'Unknown error'`
ErrorTextOf(outcome) ==
  IF outcome = "throws" THEN ErrorMessageOf(outcome) ELSE "Unknown error"

\* toolCalls.length of the ToolExecutionRequests sent
RequestedCalls == {0, 1}

\* texts the planning backend call may resolve with, as their lines
PlanTexts == {<<"">>, <<"  ">>, <<"scan the host", "", "read the report">>}

\* step.trim() is truthy
TrimsToText(step) == step \notin {"", "  "}

\* plan.split('\n').filter(step => step.trim())
NextStepsOf(plan) == SelectSeq(plan, TrimsToText)

\* Date.now() read after it last returned c
LaterReadings(c) == {t \in Timestamps : t >= c}

\* an id `${prefix}_${Date.now()}` is the pair of its prefix and its number
AgentMessage(prefix, t, type, from, to, success) ==
  [id |-> <<prefix, t>>, type |-> type, fromAgent |-> from, toAgent |-> to,
   success |-> success, error |-> "none", toolCalls |-> 0, toolResults |-> 0,
   plan |-> <<>>, nextSteps |-> <<>>]

IdPrefixOf(type) ==
  CASE type = "tool_execution_request" -> "tool_request"
    [] type = "tool_execution_response" -> "tool_response"
    [] type = "planning_request" -> "planning_request"
    [] type = "planning_response" -> "planning"
    [] type = "status_update" -> "status"
    [] OTHER -> "error"

OtherAgent(a) == IF a = "main" THEN "tools" ELSE "main"

\* ToolsAgent.sendStatusUpdate: the update handed to onMessageCallback, if set
StatusUpdateOf(t) ==
  AgentMessage("status", t, "status_update", "tools", "main", "none")

SendStatusUpdate(t) == IF onMessageCallback["tools"] THEN <<StatusUpdateOf(t)>> ELSE <<>>

\* ToolsAgent.analyzeAndCreateToolCalls: the batch handed to the scheduler
AnalyzeAndCreateToolCalls(req) == 0

HandleToolExecutionRequest_NoCatch(req, t, outcome) ==
  IF outcome = "ok"
    THEN <<AgentMessage("tool_response", t, "tool_execution_response", "tools", "main",
                        "true")>>
    ELSE <<>>

\* ToolsAgent.handleToolExecutionRequest: what it returns.  The try block
\* returns the placeholder response, the catch block the failed one.
HandleToolExecutionRequest(req, t, outcome) ==
  IF outcome = "ok"
    THEN <<AgentMessage("tool_response", t, "tool_execution_response", "tools", "main",
                        "true")>>
    ELSE <<[AgentMessage("tool_response", t, "tool_execution_response", "tools", "main",
                         "false") EXCEPT !.error = ErrorTextOf(outcome)]>>

\* MainAgent.handlePlanningRequest: what it returns; a rejected generateContent
\* is not caught, so the call rejects and nothing is returned
HandlePlanningRequest(req, t, outcome, plan) ==
  IF outcome = "ok"
    THEN <<[AgentMessage("planning", t, "planning_response", "main", "tools", "none")
              EXCEPT !.plan = plan, !.nextSteps = NextStepsOf(plan)]>>
    ELSE <<>>

\* MainAgent.handleToolExecutionResponse: without a context null; otherwise
\* the synthesis is handed back as a status update, and a rejected
\* generateContent is not caught
HandleToolExecutionResponse(response, t, outcome) ==
  IF context["main"] # 0 /\ outcome = "ok"
    THEN <<AgentMessage("response", t, "status_update", "main", "tools", "none")>>
    ELSE <<>>

IgnoredReply_Echo(msg) == <<msg>>

IgnoredReply_Acknowledge(msg) ==
  <<AgentMessage("status", clock, "status_update", msg.toAgent, msg.fromAgent, "none")>>

\* MainAgent.processMessage, case STATUS_UPDATE and default, and the same of
\* ToolsAgent: null
IgnoredReply(msg) == <<>>

\* the agent a bus listener hands a message to, "none" when the listener's
\* test on toAgent fails
RoutedTo(bus, msg) ==
  CASE bus = "main" /\ msg.toAgent = "tools" -> "tools"
    [] bus = "tools" /\ msg.toAgent = "main" -> "main"
    [] OTHER -> "none"

\* the processMessage calls started by sending msgs on bus, the first of them
\* being message number n + 1 of the run
Started(bus, msgs, n) ==
  {[agent |-> RoutedTo(bus, msgs[k]), msg |-> msgs[k], seq |-> n + k] :
     k \in {j \in DOMAIN msgs : RoutedTo(bus, msgs[j]) # "none"}}

PushEvent(msg, n) == [kind |-> "push", seq |-> n, from |-> msg.fromAgent, to |-> msg.toAgent]

EmitEvent(msg, n) == [kind |-> "emit", seq |-> n, from |-> msg.fromAgent, to |-> msg.toAgent]

BusEvents_EmitFirst(msgs, n) ==
  [i \in 1..(2 * Len(msgs)) |->
     IF i % 2 = 1 THEN EmitEvent(msgs[(i + 1) \div 2], n + (i + 1) \div 2)
                  ELSE PushEvent(msgs[i \div 2], n + i \div 2)]

\* what sendMessage does with each of msgs in turn: messageHistory.push, then
\* emit('message'), which calls the listeners of this bus before it returns
BusEvents(msgs, n) ==
  [i \in 1..(2 * Len(msgs)) |->
     IF i % 2 = 1 THEN PushEvent(msgs[(i + 1) \div 2], n + (i + 1) \div 2)
                  ELSE EmitEvent(msgs[i \div 2], n + i \div 2)]

Push_Front(history, msgs) == msgs \o history

\* this.messageHistory.push(message), for each of msgs in turn
Push(history, msgs) == history \o msgs

\* AgentCommunicationBus.sendMessage for each of msgs in turn, on the bus of
\* agent `bus`; d is the processMessage call that settles in this step
SendMessages(bus, msgs, d) ==
  /\ mainAgentBus' = IF bus = "main" THEN Push(mainAgentBus, msgs) ELSE mainAgentBus
  /\ toolsAgentBus' = IF bus = "tools" THEN Push(toolsAgentBus, msgs) ELSE toolsAgentBus
  /\ sendCount' = sendCount + Len(msgs)
  /\ lastSend' = IF msgs = <<>> THEN lastSend
                  ELSE [bus |-> bus, events |-> BusEvents(msgs, sendCount)]
  /\ deliveries' = (deliveries \ d) \cup Started(bus, msgs, sendCount)

\* a listener's processMessage call settles: what it returned, whether it
\* rejected, how the backend call inside ended and the batches handed to the
\* scheduler
Settled(d, reply, threw, outcome, batches) ==
  handledLog' = handledLog \cup {[agent |-> d.agent, msg |-> d.msg, seq |-> d.seq,
                                   reply |-> reply, threw |-> threw,
                                   outcome |-> outcome, batches |-> batches]}

\* no API call made yet
ApiIdle == [initialize |-> 0, shutdown |-> 0, handleUserInput |-> 0, other |-> 0]

AgentInit ==
  /\ IntegrationIdle
  /\ mainAgentBus = <<>>
  /\ toolsAgentBus = <<>>
  /\ deliveries = {}
  /\ handledLog = {}
  /\ clock = 1000
  /\ submitted = 0
  /\ isInitialized = TRUE
  /\ context = [a \in AgentTypes |-> 1]
  /\ onMessageCallback = [a \in AgentTypes |-> TRUE]
  /\ conversationHistory = [c \in 1..MaxInits |-> <<>>]
  /\ initCalls = {}
  /\ agentInits = [a \in AgentTypes |-> 1]
  /\ lastCall = [op |-> "none", inited |-> FALSE, result |-> "none", sent |-> 0]
  /\ sendCount = 0
  /\ lastSend = [bus |-> "none", events |-> <<>>]
  /\ apiCalls = [ApiIdle EXCEPT !.initialize = 1]
  /\ synthesizing = {}
  /\ aborted = FALSE
  /\ approvalMode = "DEFAULT"
  /\ SchedulerIdle
  /\ ToolCallIdle
  /\ TurnIdle
  /\ DriverIdle

\* an agent's onMessage callback (or a caller holding the bus) sends a message
SubmitMessage(from, type, to, t, calls) ==
  /\ submitted < MaxMessages
  /\ submitted' = submitted + 1
  /\ clock' = t
  /\ SendMessages(from, <<[AgentMessage(IdPrefixOf(type), t, type, from, to, "none")
                             EXCEPT !.toolCalls = calls]>>, {})
  /\ UNCHANGED <<handledLog, orchestratorVars, outsideAgents>>

\* ToolsAgent.processMessage, case TOOL_EXECUTION_REQUEST: the status update
\* goes out through the callback, the analysis asks the backend, its batch is
\* handed to the scheduler, then the response is returned and the listener
\* sends it on the tools bus
ToolsHandleToolExecutionRequest(d, t1, t2, outcome) ==
  /\ d.agent = "tools"
  /\ d.msg.type = "tool_execution_request"
  /\ LET reply == HandleToolExecutionRequest(d.msg, t2, outcome)
         batches == IF outcome = "ok" THEN <<AnalyzeAndCreateToolCalls(d.msg)>> ELSE <<>>
     IN /\ SendMessages("tools", SendStatusUpdate(t1) \o reply, {d})
        /\ Settled(d, reply, reply = <<>>, outcome, batches)
  /\ clock' = t2
  /\ UNCHANGED <<submitted, orchestratorVars, outsideAgents>>

\* ToolsAgent.processMessage, case STATUS_UPDATE and default: null
ToolsHandleOther(d) ==
  /\ d.agent = "tools"
  /\ d.msg.type # "tool_execution_request"
  /\ SendMessages("tools", IgnoredReply(d.msg), {d})
  /\ Settled(d, IgnoredReply(d.msg), FALSE, "ok", <<>>)
  /\ UNCHANGED <<clock, submitted, orchestratorVars, outsideAgents>>

\* MainAgent.processMessage, case PLANNING_REQUEST
MainHandlePlanningRequest(d, t, outcome, plan) ==
  /\ d.agent = "main"
  /\ d.msg.type = "planning_request"
  /\ LET reply == HandlePlanningRequest(d.msg, t, outcome, plan)
     IN /\ SendMessages("main", reply, {d})
        /\ Settled(d, reply, Threw(outcome), outcome, <<>>)
  /\ clock' = IF outcome = "ok" THEN t ELSE clock
  /\ UNCHANGED <<submitted, orchestratorVars, outsideAgents>>

\* MainAgent.processMessage, case TOOL_EXECUTION_RESPONSE: with a context, the
\* synthesis is pushed on the conversation history
MainHandleToolExecutionResponse(d, t, outcome) ==
  /\ d.agent = "main"
  /\ d.msg.type = "tool_execution_response"
  /\ LET reply == HandleToolExecutionResponse(d.msg, t, outcome)
     IN /\ SendMessages("main", reply, {d})
        /\ Settled(d, reply, context["main"] # 0 /\ Threw(outcome),
                   IF context["main"] # 0 THEN outcome ELSE "ok", <<>>)
        /\ conversationHistory' =
             IF reply # <<>>
               THEN [conversationHistory EXCEPT ![context["main"]] = Append(@, "final")]
               ELSE conversationHistory
  /\ clock' = IF context["main"] # 0 /\ outcome = "ok" THEN t ELSE clock
  /\ UNCHANGED <<submitted, isInitialized, context, onMessageCallback, initCalls,
                 agentInits, lastCall, apiCalls, synthesizing, outsideAgents>>

\* MainAgent.processMessage, case STATUS_UPDATE and default: null
MainHandleOther(d) ==
  /\ d.agent = "main"
  /\ d.msg.type \notin {"planning_request", "tool_execution_response"}
  /\ SendMessages("main", IgnoredReply(d.msg), {d})
  /\ Settled(d, IgnoredReply(d.msg), FALSE, "ok", <<>>)
  /\ UNCHANGED <<clock, submitted, orchestratorVars, outsideAgents>>

AgentNext ==
  \/ \E from \in AgentTypes, type \in MessageTypes, t \in LaterReadings(clock),
        calls \in RequestedCalls :
       /\ type # "tool_execution_request" => calls = 0
       /\ SubmitMessage(from, type, OtherAgent(from), t, calls)
  \/ \E d \in deliveries, t1 \in LaterReadings(clock), outcome \in BackendOutcomes :
       \E t2 \in LaterReadings(t1) : ToolsHandleToolExecutionRequest(d, t1, t2, outcome)
  \/ \E d \in deliveries : ToolsHandleOther(d)
  \/ \E d \in deliveries, t \in LaterReadings(clock), outcome \in BackendOutcomes,
        plan \in PlanTexts :
       /\ Threw(outcome) => plan = <<"">>
       /\ MainHandlePlanningRequest(d, t, outcome, plan)
  \/ \E d \in deliveries, t \in LaterReadings(clock), outcome \in BackendOutcomes :
       MainHandleToolExecutionResponse(d, t, outcome)
  \/ \E d \in deliveries : MainHandleOther(d)

AgentSpec == AgentInit /\ [][AgentNext]_vars

\* a processMessage call settles
Handling == AgentNext /\ submitted' = submitted

\* every processMessage call a listener has started settles: the backend
\* call it awaits resolves or rejects
FairAgentSpec == AgentSpec /\ WF_vars(Handling)

\* ---------------------------------------------------------------------------
\* AgentOrchestrator's API.  initialize() is suspended twice, at the await of
\* each agent's initialize; the other operations run in one step.

\* the orchestrator as its constructor leaves it
OrchestratorInit ==
  /\ IntegrationIdle
  /\ AgentsIdle
  /\ aborted = FALSE
  /\ approvalMode = "DEFAULT"
  /\ SchedulerIdle
  /\ ToolCallIdle
  /\ TurnIdle
  /\ DriverIdle

\* an API call ends: which operation, isInitialized when it was called, how it
\* ended, and the number of the message it sent (0 for none)
Called(op, inited, result, sent) ==
  lastCall' = [op |-> op, inited |-> inited, result |-> result, sent |-> sent]

\* initialize(sessionId), up to `await this.mainAgent.initialize(context)`:
\* MainAgent.initialize stores the new context before its own await
Initialize ==
  /\ apiCalls.initialize < MaxInits
  /\ apiCalls' = [apiCalls EXCEPT !.initialize = @ + 1]
  /\ IF isInitialized
       THEN /\ Called("initialize", isInitialized, "threw", 0)
            /\ UNCHANGED <<context, agentInits, initCalls>>
       ELSE /\ context' = [context EXCEPT !["main"] = apiCalls.initialize + 1]
            /\ agentInits' = [agentInits EXCEPT !["main"] = @ + 1]
            /\ initCalls' = initCalls \cup {[ctx |-> apiCalls.initialize + 1, at |-> "main"]}
            /\ UNCHANGED lastCall
  /\ UNCHANGED <<mainAgentBus, toolsAgentBus, deliveries, handledLog, clock, submitted,
                 sendCount, lastSend, isInitialized, onMessageCallback, conversationHistory,
                 synthesizing, outsideAgents>>

\* initialize(), from the first await to `await this.toolsAgent.initialize(context)`
InitializeMainReady(c) ==
  /\ c.at = "main"
  /\ context' = [context EXCEPT !["tools"] = c.ctx]
  /\ agentInits' = [agentInits EXCEPT !["tools"] = @ + 1]
  /\ initCalls' = (initCalls \ {c}) \cup {[c EXCEPT !.at = "tools"]}
  /\ UNCHANGED <<mainAgentBus, toolsAgentBus, deliveries, handledLog, clock, submitted,
                 sendCount, lastSend, isInitialized, onMessageCallback, conversationHistory, lastCall,
                 apiCalls, synthesizing, outsideAgents>>

\* initialize(), from the second await to its end
InitializeToolsReady(c) ==
  /\ c.at = "tools"
  /\ isInitialized' = TRUE
  /\ initCalls' = initCalls \ {c}
  /\ Called("initialize", FALSE, "returned", 0)
  /\ UNCHANGED <<mainAgentBus, toolsAgentBus, deliveries, handledLog, clock, submitted,
                 sendCount, lastSend, context, onMessageCallback, conversationHistory, agentInits,
                 apiCalls, synthesizing, outsideAgents>>

\* shutdown(): MainAgent.shutdown and ToolsAgent.shutdown drop the context and
\* the onMessage callback
Shutdown ==
  /\ apiCalls.shutdown < MaxShutdowns
  /\ apiCalls' = [apiCalls EXCEPT !.shutdown = @ + 1]
  /\ Called("shutdown", isInitialized, "returned", 0)
  /\ IF isInitialized
       THEN /\ context' = [a \in AgentTypes |-> 0]
            /\ onMessageCallback' = [a \in AgentTypes |-> FALSE]
            /\ isInitialized' = FALSE
            /\ agentInits' = [a \in AgentTypes |-> 0]
       ELSE UNCHANGED <<context, onMessageCallback, isInitialized, agentInits>>
  /\ UNCHANGED <<mainAgentBus, toolsAgentBus, deliveries, handledLog, clock, submitted, sendCount, lastSend, conversationHistory,
                 initCalls, synthesizing, outsideAgents>>

\* reset(): two new buses, wired by setupCommunication
Reset ==
  /\ apiCalls.other < MaxOthers
  /\ apiCalls' = [apiCalls EXCEPT !.other = @ + 1]
  /\ Called("reset", isInitialized, "returned", 0)
  /\ isInitialized' = FALSE
  /\ mainAgentBus' = <<>>
  /\ toolsAgentBus' = <<>>
  /\ onMessageCallback' = [a \in AgentTypes |-> TRUE]
  /\ agentInits' = [a \in AgentTypes |-> 0]
  /\ UNCHANGED <<deliveries, handledLog, clock, submitted, sendCount, lastSend, context,
                 conversationHistory, initCalls, synthesizing, outsideAgents>>

\* clearHistory()
ClearHistory ==
  /\ apiCalls.other < MaxOthers
  /\ apiCalls' = [apiCalls EXCEPT !.other = @ + 1]
  /\ Called("clearHistory", isInitialized, "returned", 0)
  /\ mainAgentBus' = <<>>
  /\ toolsAgentBus' = <<>>
  /\ UNCHANGED <<deliveries, handledLog, clock, submitted, sendCount, lastSend, isInitialized, context,
                 onMessageCallback, conversationHistory, initCalls, agentInits,
                 synthesizing, outsideAgents>>

\* getStatus()
GetStatus ==
  /\ apiCalls.other < MaxOthers
  /\ apiCalls' = [apiCalls EXCEPT !.other = @ + 1]
  /\ Called("getStatus", isInitialized, "returned", 0)
  /\ UNCHANGED <<mainAgentBus, toolsAgentBus, deliveries, handledLog, clock, submitted,
                 sendCount, lastSend, isInitialized, context, onMessageCallback, conversationHistory,
                 initCalls, agentInits, synthesizing, outsideAgents>>

RejectsCall_Never(op, inited) == FALSE

\* the operations that test isInitialized and throw
RejectsCall(op, inited) == op = "handleUserInput" /\ ~inited

\* MainAgent.createToolExecutionRequest
CreateToolExecutionRequest(t) ==
  AgentMessage("tool_request", t, "tool_execution_request", "main", "tools", "none")

\* `if (this.onMessageCallback) await this.onMessageCallback(toolRequest)`
RequestToSend(t) ==
  IF onMessageCallback["main"] THEN <<CreateToolExecutionRequest(t)>> ELSE <<>>

\* handleUserInput(userInput): outside the initialized lifetime it throws; an
\* exception of MainAgent.handleUserInput is caught and returned as text; when
\* tools are needed the request is sent and the acknowledgement returned;
\* otherwise the answer is pushed on the conversation history and returned
HandleUserInput(needsTools, outcome, t) ==
  /\ apiCalls.handleUserInput < MaxInputs
  /\ apiCalls' = [apiCalls EXCEPT !.handleUserInput = @ + 1]
  /\ CASE RejectsCall("handleUserInput", isInitialized) ->
            /\ Called("handleUserInput", isInitialized, "threw", 0)
            /\ UNCHANGED <<mainAgentBus, toolsAgentBus, deliveries, sendCount, lastSend, clock,
                           conversationHistory>>
       [] ~RejectsCall("handleUserInput", isInitialized)
            /\ (context["main"] = 0 \/ Threw(outcome)) ->
            /\ Called("handleUserInput", isInitialized, "error_text", 0)
            /\ UNCHANGED <<mainAgentBus, toolsAgentBus, deliveries, sendCount, lastSend, clock,
                           conversationHistory>>
       [] ~RejectsCall("handleUserInput", isInitialized)
            /\ context["main"] # 0 /\ ~Threw(outcome) /\ needsTools ->
            /\ SendMessages("main", RequestToSend(t), {})
            /\ Called("handleUserInput", isInitialized, "acknowledgement",
                      IF RequestToSend(t) # <<>> THEN sendCount + 1 ELSE 0)
            /\ clock' = t
            /\ UNCHANGED conversationHistory
       [] OTHER ->
            /\ conversationHistory' =
                 [conversationHistory EXCEPT ![context["main"]] = @ \o <<"user", "model">>]
            /\ Called("handleUserInput", isInitialized, "answer", 0)
            /\ UNCHANGED <<mainAgentBus, toolsAgentBus, deliveries, sendCount, lastSend, clock>>
  /\ UNCHANGED <<handledLog, submitted, isInitialized, context, onMessageCallback,
                 initCalls, agentInits, synthesizing, outsideAgents>>

\* handleToolExecutionResponse, up to `await generateFinalResponseFromToolResults`:
\* without a context it returns null; with one the call is suspended, having
\* seen the context object ctx
AwaitSynthesis(d) ==
  /\ d.agent = "main"
  /\ d.msg.type = "tool_execution_response"
  /\ \A s \in synthesizing : s.d # d
  /\ IF context["main"] = 0
       THEN /\ SendMessages("main", <<>>, {d})
            /\ Settled(d, <<>>, FALSE, "ok", <<>>)
            /\ UNCHANGED synthesizing
       ELSE /\ synthesizing' = synthesizing \cup {[d |-> d, ctx |-> context["main"]]}
            /\ UNCHANGED <<mainAgentBus, toolsAgentBus, deliveries, sendCount, lastSend,
                           handledLog>>
  /\ UNCHANGED <<clock, submitted, isInitialized, context, onMessageCallback,
                 conversationHistory, initCalls, agentInits, lastCall, apiCalls,
                 outsideAgents>>

\* handleToolExecutionResponse, from the await on: a rejected generateContent
\* rejects the call; otherwise `this.context.conversationHistory.push(...)`
\* runs on the context the agent holds now, a TypeError when it holds none,
\* and the status update is returned and sent on the main bus
SynthesisSettles(s, t, outcome) ==
  /\ synthesizing' = synthesizing \ {s}
  /\ LET pushes == ~Threw(outcome) /\ context["main"] # 0
         reply == IF pushes
                    THEN <<AgentMessage("response", t, "status_update", "main", "tools",
                                        "none")>>
                    ELSE <<>>
     IN /\ SendMessages("main", reply, {s.d})
        /\ Settled(s.d, reply, ~pushes, outcome, <<>>)
        /\ conversationHistory' =
             IF pushes
               THEN [conversationHistory EXCEPT ![context["main"]] = Append(@, "final")]
               ELSE conversationHistory
        /\ clock' = IF pushes THEN t ELSE clock
  /\ UNCHANGED <<submitted, isInitialized, context, onMessageCallback, initCalls,
                 agentInits, lastCall, apiCalls, outsideAgents>>

OrchestratorNext ==
  \/ Initialize
  \/ \E c \in initCalls : InitializeMainReady(c)
  \/ \E c \in initCalls : InitializeToolsReady(c)
  \/ Shutdown
  \/ Reset
  \/ ClearHistory
  \/ GetStatus
  \/ \E needsTools \in BOOLEAN, outcome \in {"ok", "throws"} :
       HandleUserInput(needsTools, outcome, clock)
  \/ \E d \in deliveries, outcome \in {"ok", "throws"} :
       ToolsHandleToolExecutionRequest(d, clock, clock, outcome)
  \/ \E d \in deliveries : ToolsHandleOther(d)
  \/ \E d \in deliveries : AwaitSynthesis(d)
  \/ \E s \in synthesizing, outcome \in {"ok", "throws"} :
       SynthesisSettles(s, clock, outcome)
  \/ \E d \in deliveries : MainHandleOther(d)

OrchestratorSpec == OrchestratorInit /\ [][OrchestratorNext]_vars

\* the variant a request expects back and the agent whose processMessage
\* has a case for the request
ResponseTypeOf(type) ==
  IF type = "tool_execution_request" THEN "tool_execution_response" ELSE "planning_response"

HandlerOf(type) == IF type = "tool_execution_request" THEN "tools" ELSE "main"

RequestTypes == {"tool_execution_request", "planning_request"}

\* two ids of the form prefix_number can share only the number
SharesLineage(replyId, requestId) == replyId[2] = requestId[2]

HandledRequests ==
  {e \in handledLog : e.msg.type \in RequestTypes /\ e.agent = HandlerOf(e.msg.type)}

FireAndForget == {e \in handledLog : e.msg.type \in {"status_update", "error"}}

\* C20 as stated: every ToolExecutionRequest and PlanningRequest handled is
\* answered with exactly one response of the matching variant whose id shares
\* the request id's lineage, and a StatusUpdate or an Error message is never
\* answered.
C20_RequestsAnsweredWithLineage ==
  /\ \A e \in HandledRequests :
       /\ Len(e.reply) = 1
       /\ e.reply[1].type = ResponseTypeOf(e.msg.type)
       /\ SharesLineage(e.reply[1].id, e.msg.id)
  /\ \A e \in FireAndForget : e.reply = <<>>

TerHandled == {e \in handledLog : e.agent = "tools" /\ e.msg.type = "tool_execution_request"}

\* C21: the ToolsAgent hands the scheduler one batch made of the request's
\* tool calls and its ToolExecutionResponse carries one result per requested
\* tool call.
C21_BatchCarriesRequestedCalls ==
  \A e \in TerHandled :
    (e.reply # <<>> /\ e.reply[1].success = "true") =>
      /\ e.batches = <<e.msg.toolCalls>>
      /\ e.reply[1].toolResults = e.msg.toolCalls

C23_PlanningRequestAnswered ==
  \A e \in handledLog :
    (e.agent = "main" /\ e.msg.type = "planning_request") =>
      /\ Len(e.reply) = 1
      /\ e.reply[1].type = "planning_response"
      /\ e.reply[1].toAgent = e.msg.fromAgent
      /\ e.reply[1].plan # <<"">> => e.reply[1].nextSteps # <<>>

\* the processMessage calls started so far
StartedCalls ==
  deliveries \cup {[agent |-> e.agent, msg |-> e.msg, seq |-> e.seq] : e \in handledLog}

\* C24 (the part that needs no fairness): when handleUserInput has returned
\* the acknowledgement, a ToolExecutionRequest was sent and handed to the
\* ToolsAgent.
C24_AcknowledgedRequestReachesExecutor ==
  lastCall.result = "acknowledgement" =>
    \E x \in StartedCalls :
      /\ x.seq = lastCall.sent
      /\ x.agent = "tools"
      /\ x.msg.type = "tool_execution_request"

IgnoredByMain == {"tool_execution_request", "planning_response", "error", "status_update"}

\* C25: MainAgent.processMessage settles without rejecting for a
\* ToolExecutionRequest, a PlanningResponse, an Error message and a
\* StatusUpdate: it returns null, nothing is sent, and the agent's context and
\* the conversation history stay as they were.
C25_UnhandledVariantsIgnored ==
  [][\A d \in deliveries :
       (d.agent = "main" /\ d.msg.type \in IgnoredByMain /\ d \notin deliveries') =>
         /\ \E e \in handledLog' : e.seq = d.seq /\ e.reply = <<>> /\ ~e.threw
         /\ sendCount' = sendCount
         /\ context' = context
         /\ conversationHistory' = conversationHistory]_vars

C25_Witness ==
  \E e \in handledLog :
    /\ e.agent = "main"
    /\ e.msg.type \in {"tool_execution_request", "planning_response", "error"}
    /\ e.reply = <<>>
    /\ deliveries = {}

EventsOf(kind) == SelectSeq(lastSend.events, LAMBDA ev : ev.kind = kind)

IsPrefix(s, t) == Len(s) <= Len(t) /\ SubSeq(t, 1, Len(s)) = s

\* the step is reset() or clearHistory()
ClearingStep ==
  apiCalls' # apiCalls /\ lastCall'.op \in {"reset", "clearHistory"}

\* C27: but for reset() and clearHistory(), every step leaves each bus's
\* messageHistory a prefix of what it becomes, and the messages a step adds
\* stand at the end in the order they were sent.
C27_HistoryAppendOnly ==
  [][~ClearingStep =>
       /\ IsPrefix(mainAgentBus, mainAgentBus')
       /\ IsPrefix(toolsAgentBus, toolsAgentBus')
       /\ sendCount' # sendCount =>
            LET pushes == SelectSeq(lastSend'.events, LAMBDA ev : ev.kind = "push")
                old == IF lastSend'.bus = "main" THEN mainAgentBus ELSE toolsAgentBus
                new == IF lastSend'.bus = "main" THEN mainAgentBus' ELSE toolsAgentBus'
            IN /\ Len(new) = Len(old) + Len(pushes)
               /\ \A i \in DOMAIN pushes :
                    /\ pushes[i].seq = sendCount + i
                    /\ new[Len(old) + i].fromAgent = pushes[i].from
                    /\ new[Len(old) + i].toAgent = pushes[i].to]_vars

C27_Witness ==
  /\ Len(toolsAgentBus) = 2
  /\ Len(mainAgentBus) = 1
  /\ toolsAgentBus[1].type = "status_update"
  /\ toolsAgentBus[2].type = "tool_execution_response"
  /\ mainAgentBus[1].type = "status_update"
  /\ lastCall.op = "clearHistory"

\* C28: the agents are initialized at most once between the construction, a
\* shutdown() or a reset() and the next shutdown() or reset(), whatever the
\* interleaving of the initialize() calls.
C28_AgentsInitializedOncePerLifetime ==
  \A a \in AgentTypes : agentInits[a] <= 1

C30_ShutdownClearsBuses ==
  [][(apiCalls'.shutdown # apiCalls.shutdown /\ lastCall'.inited) =>
       /\ \A a \in AgentTypes : context'[a] = 0
       /\ mainAgentBus' = <<>>
       /\ toolsAgentBus' = <<>>]_vars

\* ======================================================================
\* TwoAgentSystem.executeTools (ExecSpec)
\* ======================================================================

\* callIds the caller may give its requests
ExecCallIds == {"read-1", "read-2"}

\* how ToolsAgent.executeTool goes for a request: getToolRegistry rejects, or
\* tool.execute resolves, rejects with an Error or rejects with another value
ExecOutcomes == {"registry_rejects", "ok", "throws", "throws_non_error"}

ToolCallRequests == [callId : ExecCallIds, name : ToolNames, outcome : ExecOutcomes]

\* ToolsAgent.executeTool(name, args, callId): it throws when the registry
\* cannot be had or does not know the tool, and otherwise returns a
\* ToolCallResponseInfo, with error set when tool.execute rejected
ExecuteTool(call) ==
  IF call.outcome = "registry_rejects"
    THEN [thrown |-> TRUE, message |-> "registry unavailable"]
  ELSE IF call.name \notin Registry
    THEN [thrown |-> TRUE, message |-> "Tool not found"]
  ELSE [thrown |-> FALSE,
        result |-> [callId |-> call.callId, name |-> call.name,
                    error |-> IF call.outcome = "ok" THEN "none"
                              ELSE ErrorTextOf(call.outcome)]]

\* the result the catch block of executeTools pushes
ExecuteToolsCatch(call, message) ==
  [callId |-> call.callId, name |-> call.name, error |-> message]

IterationEnd_NoCatch(call) ==
  LET r == ExecuteTool(call)
  IN IF r.thrown THEN [rejects |-> TRUE, results |-> <<>>]
     ELSE [rejects |-> FALSE, results |-> <<r.result>>]

\* one pass of `for (const toolCall of toolCalls)`: try executeTool and push
\* its result, catch and push an error result
IterationEnd(call) ==
  LET r == ExecuteTool(call)
  IN IF r.thrown THEN [rejects |-> FALSE, results |-> <<ExecuteToolsCatch(call, r.message)>>]
     ELSE [rejects |-> FALSE, results |-> <<r.result>>]

ExecInit ==
  /\ exEnabled \in BOOLEAN
  /\ exCalls \in UNION {[1..n -> ToolCallRequests] : n \in 0..MaxToolCalls}
  /\ exState = "idle"
  /\ exResults = <<>>
  /\ CliIdle
  /\ ConfirmIdle
  /\ ConfigIdle
  /\ approvalMode = "DEFAULT"
  /\ aborted = FALSE
  /\ SchedulerIdle
  /\ ToolCallIdle
  /\ TurnIdle
  /\ DriverIdle
  /\ AgentsIdle

\* executeTools(toolCalls) is called: it throws when the system is not enabled
ExecuteToolsCall ==
  /\ exState = "idle"
  /\ exState' = IF exEnabled THEN "looping" ELSE "rejected"
  /\ UNCHANGED <<exEnabled, exCalls, exResults, outsideExec>>

\* the loop takes the next request
ExecuteToolsIteration ==
  /\ exState = "looping"
  /\ Len(exResults) < Len(exCalls)
  /\ LET e == IterationEnd(exCalls[Len(exResults) + 1])
     IN /\ exResults' = exResults \o e.results
        /\ exState' = IF e.rejects THEN "rejected" ELSE "looping"
  /\ UNCHANGED <<exEnabled, exCalls, outsideExec>>

\* `return results`
ExecuteToolsReturn ==
  /\ exState = "looping"
  /\ Len(exResults) = Len(exCalls)
  /\ exState' = "returned"
  /\ UNCHANGED <<exEnabled, exCalls, exResults, outsideExec>>

ExecNext == ExecuteToolsCall \/ ExecuteToolsIteration \/ ExecuteToolsReturn

ExecSpec == ExecInit /\ [][ExecNext]_vars

\* C31: on an enabled TwoAgentSystem executeTools never rejects; the results
\* it has and returns are one per request taken so far, in request order and
\* with the request's callId, and a result carries an error exactly if its own
\* request named an unknown tool or its own executeTool call failed.
C31_OneResultPerCallInOrder ==
  /\ exEnabled => exState # "rejected"
  /\ Len(exResults) <= Len(exCalls)
  /\ exState = "returned" => Len(exResults) = Len(exCalls)
  /\ \A i \in DOMAIN exResults :
       /\ exResults[i].callId = exCalls[i].callId
       /\ exResults[i].name = exCalls[i].name
       /\ exResults[i].error = "none" <=>
            (exCalls[i].name \in Registry /\ exCalls[i].outcome = "ok")

C31_Witness ==
  /\ exState = "returned"
  /\ Len(exCalls) = 2
  /\ exCalls[1].name \notin Registry
  /\ exResults[1].error = "Tool not found"
  /\ exCalls[2].outcome = "ok"
  /\ exResults[2].error = "none"
  /\ exResults[2].callId = "read-2"

\* ======================================================================
\* AgentCliIntegration (CliSpec)
\* ======================================================================

\* how an awaited call ends
AwaitEnds == {"resolves", "rejects"}

\* TwoAgentSystem.isAgentSystemEnabled() of a system made by
\* createTwoAgentSystem(config): its options are empty, so enabled is true
IsAgentSystemEnabled == TRUE

\* AgentCliIntegration.isAgentSystemReady()
IsAgentSystemReady == twoAgentSystem # "null" /\ IsAgentSystemEnabled

\* AgentCliIntegration.shouldHandle()
ShouldHandle == cliEnabled /\ IsAgentSystemReady

\* what processUserInput does with the input
ProcessUserInput ==
  IF IsAgentSystemReady
    THEN IF sysInitialized THEN "answered" ELSE "orchestrator not initialized"
    ELSE "Agent system not ready"

CliInit ==
  /\ cliEnabled \in BOOLEAN
  /\ twoAgentSystem = "null"
  /\ cliInitPc = "idle"
  /\ cliShutPc = "idle"
  /\ sysInitialized = FALSE
  /\ cliCompleted = FALSE
  /\ cliLast = [result |-> "none", completed |-> FALSE]
  /\ cliCalls = 0
  /\ ExecIdle
  /\ ConfirmIdle
  /\ ConfigIdle
  /\ approvalMode = "DEFAULT"
  /\ aborted = FALSE
  /\ SchedulerIdle
  /\ ToolCallIdle
  /\ TurnIdle
  /\ DriverIdle
  /\ AgentsIdle

\* initialize() is called: with two-agent mode off it returns at once,
\* otherwise it awaits createTwoAgentSystem
CliInitialize ==
  /\ cliInitPc = "idle"
  /\ cliCalls < MaxCliCalls
  /\ cliCalls' = cliCalls + 1
  /\ IF cliEnabled
       THEN cliInitPc' = "creating" /\ UNCHANGED cliCompleted
       ELSE cliInitPc' = "idle" /\ cliCompleted' = TRUE
  /\ UNCHANGED <<cliEnabled, twoAgentSystem, cliShutPc, sysInitialized, cliLast, outsideCli>>

\* createTwoAgentSystem resolved: the new system is stored and its
\* initialize() is called and awaited
CliSystemCreated ==
  /\ cliInitPc = "creating"
  /\ twoAgentSystem' = "set"
  /\ sysInitialized' = FALSE
  /\ cliInitPc' = "initializing"
  /\ UNCHANGED <<cliEnabled, cliShutPc, cliCompleted, cliLast, cliCalls, outsideCli>>

\* twoAgentSystem.initialize() settles and with it the initialize() call
CliInitializeSettles(end) ==
  /\ cliInitPc = "initializing"
  /\ cliInitPc' = "idle"
  /\ sysInitialized' = (end = "resolves")
  /\ cliCompleted' = IF end = "resolves" THEN TRUE ELSE cliCompleted
  /\ UNCHANGED <<cliEnabled, twoAgentSystem, cliShutPc, cliLast, cliCalls, outsideCli>>

\* shutdown() is called: with a system stored it awaits the system's shutdown
CliShutdown ==
  /\ cliShutPc = "idle"
  /\ cliCalls < MaxCliCalls
  /\ cliCalls' = cliCalls + 1
  /\ cliCompleted' = FALSE
  /\ cliShutPc' = IF twoAgentSystem # "null" THEN "awaiting" ELSE "idle"
  /\ UNCHANGED <<cliEnabled, twoAgentSystem, cliInitPc, sysInitialized, cliLast, outsideCli>>

\* the system's shutdown settles: when it resolved, `this.twoAgentSystem = null`
CliShutdownSettles(end) ==
  /\ cliShutPc = "awaiting"
  /\ cliShutPc' = "idle"
  /\ IF end = "resolves"
       THEN twoAgentSystem' = "null" /\ sysInitialized' = FALSE
       ELSE UNCHANGED <<twoAgentSystem, sysInitialized>>
  /\ UNCHANGED <<cliEnabled, cliInitPc, cliCompleted, cliLast, cliCalls, outsideCli>>

\* processUserInput(input)
CliProcessUserInput ==
  /\ cliCalls < MaxCliCalls
  /\ cliCalls' = cliCalls + 1
  /\ cliLast' = [result |-> ProcessUserInput, completed |-> cliEnabled /\ cliCompleted]
  /\ UNCHANGED <<cliEnabled, twoAgentSystem, cliInitPc, cliShutPc, sysInitialized,
                 cliCompleted, outsideCli>>

CliNext ==
  \/ CliInitialize
  \/ CliSystemCreated
  \/ \E end \in AwaitEnds : CliInitializeSettles(end)
  \/ CliShutdown
  \/ \E end \in AwaitEnds : CliShutdownSettles(end)
  \/ CliProcessUserInput

CliSpec == CliInit /\ [][CliNext]_vars

\* C32: shouldHandle() and isAgentSystemReady() are true exactly when
\* two-agent mode is enabled, an initialize() call has completed and
\* shutdown() has not been called since; a processUserInput call made in any
\* other state ends with 'Agent system not ready'.
C32_ReadyExactlyWhenInitialized ==
  /\ IsAgentSystemReady <=> (cliEnabled /\ cliCompleted)
  /\ ShouldHandle <=> (cliEnabled /\ cliCompleted)
  /\ (cliLast.result # "none" /\ ~cliLast.completed) =>
       cliLast.result = "Agent system not ready"

\* ======================================================================
\* Confirmation of tool requests over a session (ConfirmSpec)
\* ======================================================================

\* HTBScannerParams.command, as the words `split(' ')` gives; <<"">> is ''
HtbCommands == {<<"">>, <<"nmap", "-sV", "10.10.10.1">>, <<"curl", "http://target">>}

HtbModes == {"command", "web-analysis", "network-analysis"}

HtbTargets == {"none", "http://target", "10.10.10.1"}

HtbParams == [mode : HtbModes, command : HtbCommands, target : HtbTargets]

\* HTBScannerTool.validateToolParams (the schema passing): the error, or "null"
HtbValidateToolParams(p) ==
  CASE p.mode = "command" ->
         IF p.command = <<"">> THEN "Command cannot be empty for command mode." ELSE "null"
    [] p.mode = "web-analysis" ->
         IF p.target = "none" THEN "Target URL is required for web analysis mode."
         ELSE IF p.target # "http://target"
           THEN "Target must be a valid HTTP/HTTPS URL for web analysis."
         ELSE "null"
    [] OTHER ->
         IF p.target = "none"
           THEN "Target IP or hostname is required for network analysis mode."
           ELSE "null"

\* params.command.split(' ')[0]
BaseCommand(p) == p.command[1]

\* a hook's `return false`
NoConfirmation == [confirm |-> FALSE, command |-> NoCommand, rootCommand |-> "none"]

\* HTBScannerTool.shouldConfirmExecute: false, or the descriptor with its command
HtbShouldConfirmExecute(p) ==
  IF HtbValidateToolParams(p) # "null" THEN NoConfirmation
  ELSE IF BaseCommand(p) \in htbWhitelist THEN NoConfirmation
  ELSE [confirm |-> TRUE, command |-> [built |-> "params.command", from |-> p.command],
        rootCommand |-> BaseCommand(p)]

\* buildWebAnalysisCommand(params) and buildNetworkAnalysisCommand(target): a
\* script made from the target alone
BuildWebAnalysisCommand(p) == [built |-> "buildWebAnalysisCommand", from |-> <<p.target>>]

BuildNetworkAnalysisCommand(target) ==
  [built |-> "buildNetworkAnalysisCommand", from |-> <<target>>]

\* HTBScannerTool.execute: the command handed to spawn('bash', ['-c', command]),
\* "none" when the params are rejected
HtbExecuteCommand(p) ==
  IF HtbValidateToolParams(p) # "null" THEN NoCommand
  ELSE CASE p.mode = "web-analysis" -> BuildWebAnalysisCommand(p)
         [] p.mode = "network-analysis" -> BuildNetworkAnalysisCommand(p.target)
         [] OTHER -> [built |-> "params.command", from |-> p.command]

\* the NmapToolParams of the session: schema-valid quick scans of a target
NmapSessionParams ==
  {p \in NmapParams : p.schema /\ p.ports = "list" /\ p.scan_type = "quick"
                        /\ ~p.custom_flags /\ ~p.scripts}

\* buildNmapCommand(params).join(' '), shown and spawned alike
BuildNmapCommand(p) == [built |-> "buildNmapCommand", from |-> <<p.target>>]

\* WebAnalyzerToolParams.target_url
WebTargets == {"http://target", "ftp://target"}

\* WebAnalyzerTool.shouldConfirmExecute
WebShouldConfirmExecute(p) ==
  IF configApprovalMode = "AUTO_EDIT" THEN NoConfirmation
  ELSE IF p.target_url # "http://target" THEN NoConfirmation
  ELSE [confirm |-> TRUE, command |-> NoCommand, rootCommand |-> "none"]

\* the requests of a session
SessionRequests ==
  {[tool |-> "htb_scanner", params |-> p] : p \in HtbParams}
    \cup {[tool |-> "nmap_scan", params |-> p] : p \in NmapSessionParams}
    \cup {[tool |-> "web_analyzer", params |-> [target_url |-> u]] : u \in WebTargets}

\* toolInstance.shouldConfirmExecute(reqInfo.args, signal) of the request's tool
ConfirmationDetailsOf(req) ==
  CASE req.tool = "htb_scanner" -> HtbShouldConfirmExecute(req.params)
    [] req.tool = "nmap_scan" ->
         IF ShouldConfirmExecute(req.params) = "false" THEN NoConfirmation
         ELSE [confirm |-> TRUE, command |-> BuildNmapCommand(req.params),
               rootCommand |-> "nmap"]
    [] OTHER -> WebShouldConfirmExecute(req.params)

\* the command the tool's execute runs
ExecuteCommandOf(req) ==
  CASE req.tool = "htb_scanner" -> HtbExecuteCommand(req.params)
    [] req.tool = "nmap_scan" ->
         IF ValidateToolParams(req.params) # "null" THEN NoCommand
         ELSE BuildNmapCommand(req.params)
    [] OTHER -> NoCommand

ConfirmInit ==
  /\ ConfirmIdle
  /\ ExecIdle
  /\ CliIdle
  /\ ConfigIdle
  /\ approvalMode = "DEFAULT"
  /\ aborted = FALSE
  /\ SchedulerIdle
  /\ ToolCallIdle
  /\ TurnIdle
  /\ DriverIdle
  /\ AgentsIdle

\* schedule([request]): the record is created in validating and the tool's
\* confirmation hook is called
ConfirmSchedule(req) ==
  /\ cfStatus \in {"none", "executing", "cancelled"}
  /\ cfDone < MaxRequests
  /\ cfDone' = cfDone + 1
  /\ cfReq' = req
  /\ cfStatus' = "validating"
  /\ cfShown' = NoCommand
  /\ cfAsked' = FALSE
  /\ cfRun' = NoCommand
  /\ UNCHANGED <<htbWhitelist, nmapWhitelist, configApprovalMode, cfAlways, outsideConfirm>>

\* the hook returns: with a descriptor the record awaits approval, with false
\* it is scheduled
ConfirmHookReturns ==
  /\ cfStatus = "validating"
  /\ LET details == ConfirmationDetailsOf(cfReq)
     IN /\ cfStatus' = ConfirmStatus(IF details.confirm THEN "details" ELSE "false")
        /\ cfAsked' = details.confirm
        /\ cfShown' = details.command
  /\ UNCHANGED <<htbWhitelist, nmapWhitelist, configApprovalMode, cfReq, cfRun, cfAlways,
                 cfDone, outsideConfirm>>

\* the confirmation is resolved: the descriptor's onConfirm(outcome) runs and
\* the record is scheduled or cancelled
ConfirmResolve(outcome) ==
  /\ cfStatus = "awaiting_approval"
  /\ cfStatus' = ResolveStatus(outcome)
  /\ htbWhitelist' =
       IF outcome = "ProceedAlways" /\ cfReq.tool = "htb_scanner"
         THEN htbWhitelist \cup {BaseCommand(cfReq.params)} ELSE htbWhitelist
  /\ nmapWhitelist' =
       IF outcome = "ProceedAlways" /\ cfReq.tool = "nmap_scan"
         THEN nmapWhitelist \cup {"nmap"} ELSE nmapWhitelist
  /\ configApprovalMode' =
       IF outcome = "ProceedAlways" /\ cfReq.tool = "web_analyzer"
         THEN "AUTO_EDIT" ELSE configApprovalMode
  /\ cfAlways' = IF outcome = "ProceedAlways" THEN cfAlways \cup {cfReq} ELSE cfAlways
  /\ UNCHANGED <<cfReq, cfAsked, cfShown, cfRun, cfDone, outsideConfirm>>

\* attemptExecutionOfScheduledCalls: the record becomes executing and the
\* tool's execute is called
ConfirmExecute ==
  /\ cfStatus = "scheduled"
  /\ cfStatus' = "executing"
  /\ cfRun' = ExecuteCommandOf(cfReq)
  /\ UNCHANGED <<htbWhitelist, nmapWhitelist, configApprovalMode, cfReq, cfAsked, cfShown,
                 cfAlways, cfDone, outsideConfirm>>

ConfirmNext ==
  \/ \E req \in SessionRequests : ConfirmSchedule(req)
  \/ ConfirmHookReturns
  \/ \E outcome \in Outcomes : ConfirmResolve(outcome)
  \/ ConfirmExecute

ConfirmSpec == ConfirmInit /\ [][ConfirmNext]_vars

\* C33: a request identical to one whose confirmation was resolved with
\* ProceedAlways earlier in the session never awaits approval: its record
\* goes from validating to scheduled.
C33_ProceedAlwaysSkipsLaterConfirmation ==
  cfReq \in cfAlways => cfStatus # "awaiting_approval"

\* C34: whenever NmapTool.shouldConfirmExecute returns, whatever was
\* confirmed before, the record awaits approval with a descriptor exactly if
\* the params pass validateToolParams, and is scheduled without confirmation
\* exactly if they fail it.
C34_NmapAlwaysConfirms ==
  [][(cfStatus = "validating" /\ cfStatus' # "validating" /\ cfReq.tool = "nmap_scan") =>
       /\ ValidateToolParams(cfReq.params) = "null" =>
            cfStatus' = "awaiting_approval" /\ cfAsked' /\ cfShown' = BuildNmapCommand(cfReq.params)
       /\ ValidateToolParams(cfReq.params) # "null" =>
            cfStatus' = "scheduled" /\ ~cfAsked']_vars

C34_Witness ==
  /\ cfReq.tool = "nmap_scan"
  /\ cfReq \in cfAlways
  /\ nmapWhitelist = {"nmap"}
  /\ cfDone = 2
  /\ cfStatus = "awaiting_approval"

\* C40: when an HTBScannerTool request that was shown for confirmation is
\* executed, the command spawned is the command of the descriptor.
C40_RunsTheCommandShown ==
  (cfReq.tool = "htb_scanner" /\ cfStatus = "executing" /\ cfAsked) =>
    cfRun = cfShown

\* ======================================================================
\* getCommunicationStats of the orchestrator
\* ======================================================================

GetCommunicationStats_ActiveByContext ==
  LET mainMessages == Len(mainAgentBus)
      toolsMessages == Len(toolsAgentBus)
  IN [mainAgentMessages |-> mainMessages,
      toolsAgentMessages |-> toolsMessages,
      totalMessages |-> mainMessages + toolsMessages,
      messagesSent |-> mainMessages + toolsMessages,
      messagesReceived |-> mainMessages + toolsMessages,
      activeAgents |-> Cardinality({a \in AgentTypes : context[a] # 0})]

\* AgentOrchestrator.getCommunicationStats: the lengths of the two bus
\* histories, their sum three times, and 2 or 0 agents by isInitialized
GetCommunicationStats ==
  LET mainMessages == Len(mainAgentBus)
      toolsMessages == Len(toolsAgentBus)
  IN [mainAgentMessages |-> mainMessages,
      toolsAgentMessages |-> toolsMessages,
      totalMessages |-> mainMessages + toolsMessages,
      messagesSent |-> mainMessages + toolsMessages,
      messagesReceived |-> mainMessages + toolsMessages,
      activeAgents |-> IF isInitialized THEN 2 ELSE 0]

\* C35: in every state of the orchestrator getCommunicationStats reports
\* totalMessages = mainAgentMessages + toolsAgentMessages = messagesSent =
\* messagesReceived, activeAgents is 2 once initialize() has completed and
\* until shutdown() or reset() and 0 otherwise, and every count is 0 as long
\* as no user input has been handed in, initialize() or not.
C35_StatsConsistent ==
  LET stats == GetCommunicationStats
      \* the API call that ended last was an initialize(), or one that found
      \* the orchestrator initialized and left it so
      live == \/ lastCall.op = "initialize"
              \/ /\ lastCall.op \in {"handleUserInput", "getStatus", "clearHistory"}
                 /\ lastCall.inited
  IN /\ stats.totalMessages = stats.mainAgentMessages + stats.toolsAgentMessages
     /\ stats.totalMessages = stats.messagesSent
     /\ stats.totalMessages = stats.messagesReceived
     /\ stats.activeAgents = IF live THEN 2 ELSE 0
     /\ apiCalls.handleUserInput = 0 =>
          /\ stats.mainAgentMessages = 0
          /\ stats.toolsAgentMessages = 0
          /\ stats.totalMessages = 0

\* the stats after a session with a tool request has been shut down: the
\* request, the executor's update and response are counted, no agent is active
C35_Witness ==
  /\ ~isInitialized
  /\ apiCalls.shutdown = 1
  /\ GetCommunicationStats.mainAgentMessages >= 1
  /\ GetCommunicationStats.toolsAgentMessages >= 2
  /\ GetCommunicationStats.activeAgents = 0


\* C36: once shutdown() has been called, a handleUserInput call that ends
\* with the acknowledgement (the planner decided tools are needed) still
\* appends one ToolExecutionRequest to the planner's bus history and starts
\* its delivery to the executor, as in the first lifetime.
C36_RequestSentAfterReinitialize ==
  [][(/\ apiCalls.shutdown >= 1
      /\ apiCalls'.handleUserInput = apiCalls.handleUserInput + 1
      /\ lastCall'.result = "acknowledgement") =>
       /\ Len(mainAgentBus') = Len(mainAgentBus) + 1
       /\ mainAgentBus'[Len(mainAgentBus')].type = "tool_execution_request"
       /\ \E d \in deliveries' \ deliveries :
            d.agent = "tools" /\ d.msg = mainAgentBus'[Len(mainAgentBus')]]_vars


\* the handleToolExecutionResponse calls that end in this step although the
\* agent no longer holds the context they saw before the await
Overtaken == {s \in synthesizing \ synthesizing' : context["main"] # s.ctx}

\* C37: a handleToolExecutionResponse call overtaken by shutdown() while it
\* was suspended on the synthesis ends without raising when the synthesis
\* itself succeeded, and changes no conversation history.
C37_OvertakenHandlerIsHarmless ==
  [][\A s \in Overtaken :
       /\ \A h \in handledLog' \ handledLog : h.outcome = "ok" => ~h.threw
       /\ conversationHistory' = conversationHistory]_vars


\* how many more messages a message of this variant can set off: the cases of
\* the two processMessage switches that return a message
ReplyRank(type) ==
  CASE type = "tool_execution_request" -> 2
    [] type \in {"tool_execution_response", "planning_request"} -> 1
    [] OTHER -> 0

\* C38: the exchange quiesces.  A processMessage call returns at most one
\* message, of a variant that sets off fewer messages than the one it
\* answers (a ToolExecutionRequest a ToolExecutionResponse, that one a
\* StatusUpdate, that one nothing); with the executor's status update a
\* message put on a bus is followed by at most three more; and when every
\* started call settles, the time comes after which no call is pending.
C38_ExchangeQuiesces ==
  /\ [](/\ sendCount <= 4 * submitted
        /\ \A e \in handledLog :
             /\ Len(e.reply) <= 1
             /\ \A i \in DOMAIN e.reply : ReplyRank(e.reply[i].type) < ReplyRank(e.msg.type))
  /\ <>[](deliveries = {})

\* a ToolExecutionRequest has run its whole chain: the executor's update and
\* response and the planner's update were sent, and nothing is pending
C38_Witness ==
  /\ submitted = 1
  /\ sendCount = 4
  /\ deliveries = {}
  /\ \E e \in handledLog : e.seq = 4 /\ e.agent = "tools" /\ e.msg.type = "status_update"


\* ======================================================================
\* loadTwoAgentConfig over the calls of one process (ConfigSpec)
\* ======================================================================

\* values of GEMINI_TWO_AGENT_MODE, GEMINI_MAIN_AGENT_MODEL and
\* GEMINI_TOOL_AGENT_MODEL; "undefined" is the variable not set
ModeValues == {"undefined", "true", "YES", "off"}

MainModelValues == {"undefined", "", "custom-main"}

ToolModelValues == {"undefined", "custom-tool"}

Environments ==
  [GEMINI_TWO_AGENT_MODE : ModeValues, GEMINI_MAIN_AGENT_MODEL : MainModelValues,
   GEMINI_TOOL_AGENT_MODEL : ToolModelValues, debugMode : BOOLEAN]

\* envEnabled.toLowerCase()
ToLowerCase(v) == IF v = "YES" THEN "yes" ELSE v

\* a string is truthy unless it is undefined or empty
Truthy(v) == v \notin {"undefined", ""}

\* `{ ...DEFAULT_TWO_AGENT_CONFIG }`: a new object with its own `enabled`;
\* mainAgent, toolsAgent and communication are the objects of the default
SpreadCopy(def) == [enabled |-> def.enabled, nested |-> def]

\* the objects mainAgent, toolsAgent and communication after the writes
\* `baseConfig.mainAgent.model = mainModel`, `baseConfig.toolsAgent.model =
\* toolModel` and `baseConfig.communication.debugging = true`
NestedWrites(def, env) ==
  [def EXCEPT
     !.mainAgent.model =
        IF Truthy(env.GEMINI_MAIN_AGENT_MODEL) THEN env.GEMINI_MAIN_AGENT_MODEL ELSE @,
     !.toolsAgent.model =
        IF Truthy(env.GEMINI_TOOL_AGENT_MODEL) THEN env.GEMINI_TOOL_AGENT_MODEL ELSE @,
     !.communication.debugging = IF env.debugMode THEN TRUE ELSE @]

\* loadTwoAgentConfig(config), called when the default reads def: the
\* configuration it returns and the default as it reads afterwards
LoadTwoAgentConfig(def, env) ==
  LET baseConfig == SpreadCopy(def)
      enabled == IF env.GEMINI_TWO_AGENT_MODE # "undefined"
                   THEN ToLowerCase(env.GEMINI_TWO_AGENT_MODE) \in {"true", "1", "yes", "on"}
                   ELSE baseConfig.enabled
      nested == NestedWrites(baseConfig.nested, env)
  IN [returned |-> [nested EXCEPT !.enabled = enabled],
      default |-> [nested EXCEPT !.enabled = def.enabled]]

ConfigInit ==
  /\ ConfigIdle
  /\ ExecIdle
  /\ CliIdle
  /\ ConfirmIdle
  /\ approvalMode = "DEFAULT"
  /\ aborted = FALSE
  /\ SchedulerIdle
  /\ ToolCallIdle
  /\ TurnIdle
  /\ DriverIdle
  /\ AgentsIdle

\* one call of loadTwoAgentConfig under the environment env
LoadConfig(env) ==
  /\ loads < MaxLoads
  /\ loads' = loads + 1
  /\ loadEnv' = env
  /\ loaded' = LoadTwoAgentConfig(defaultConfig, env).returned
  /\ defaultConfig' = LoadTwoAgentConfig(defaultConfig, env).default
  /\ UNCHANGED outsideConfig

ConfigNext == \E env \in Environments : LoadConfig(env)

ConfigSpec == ConfigInit /\ [][ConfigNext]_vars

\* C39: loadTwoAgentConfig leaves DEFAULT_TWO_AGENT_CONFIG as the module
\* defines it, and the configuration a call returns is the one the
\* environment and the debug flag of that call give on the pristine default.
C39_LoadLeavesDefaultAlone ==
  /\ defaultConfig = DEFAULT_TWO_AGENT_CONFIG
  /\ loads > 0 => loaded = LoadTwoAgentConfig(DEFAULT_TWO_AGENT_CONFIG, loadEnv).returned

====
